---- MODULE Spec2Model ----
(***************************************************************************)
(* A model of the Speedwire client of sbfspot_python: the frame builder    *)
(* (protocol.py), the record and archive decoders and the session methods  *)
(* (sbfspot.py) and the receive filter (ethernet.py).                      *)
(*                                                                         *)
(* Representation.  A frame is a sequence of bytes (0..255), 1-based here  *)
(* and 0-based in the source: byte k of the source is element k+1.         *)
(* Python integers that can exceed 31 bits (what write_long writes, what   *)
(* get_long, get_long_signed and get_longlong return, the NAN_* constants) *)
(* are records [neg, mag]: a sign and the magnitude as 8 little-endian     *)
(* bytes, so that equality of two such records is equality of the Python   *)
(* integers.  Small integers (offsets, lengths, the packet index, 16-bit   *)
(* fields) are TLA+ integers.                                              *)
(*                                                                         *)
(* The package is modelled as imported, i.e. with the annotations of       *)
(* models.py resolved.                                                     *)
(***************************************************************************)
EXTENDS Integers, Sequences, FiniteSets, TLC

VARIABLES
    buffer,         \* PacketBuilder.buffer
    packet_id,      \* PacketBuilder.packet_id
    app_serial,     \* PacketBuilder.app_serial
    lastCall,       \* the latest builder call: its name and the state before it
    builds,         \* number of counter-advancing builds since construction
    inverter,       \* SBFspot.inverter, the InverterData of the session
    din,            \* the reply handed to a decoder, with the records it was made of
    dres,           \* outcome of the decoder call: "pending", "ok" or the exception
    sock,           \* EthernetConnection.sock is set
    ip_address,     \* SBFspot.ip_address (<<>> is None)
    connected,      \* SBFspot._connected
    logged_in,      \* SBFspot._logged_in
    result,         \* the latest call of the session: what it saw and how it ended
    calls,          \* number of calls of the session since construction
    discovery       \* the loop of discover_inverters: whether it runs, its list

bvars == <<buffer, packet_id, app_serial>>
bobs == <<lastCall, builds>>
dvars == <<inverter, din, dres>>
svars == <<sock, ip_address, connected, logged_in, result, calls, discovery>>
vars == <<buffer, packet_id, app_serial, lastCall, builds, inverter, din, dres,
          sock, ip_address, connected, logged_in, result, calls, discovery>>

----------------------------------------------------------------------------
(* Bytes and wide integers *)

Byte == 0..255

Zero8 == <<0, 0, 0, 0, 0, 0, 0, 0>>

\* a non-negative Python int < 2^32 given by its two 16-bit halves
N32(hi, lo) ==
    [neg |-> FALSE,
     mag |-> <<lo % 256, lo \div 256, hi % 256, hi \div 256, 0, 0, 0, 0>>]

\* a Python int 0 <= n < 2^31
NumOf(n) ==
    [neg |-> FALSE,
     mag |-> <<n % 256, (n \div 256) % 256, (n \div 65536) % 256,
               (n \div 16777216) % 256, 0, 0, 0, 0>>]

\* the TLA+ integer of a wide integer of magnitude < 2^31
ToInt(v) ==
    LET m == v.mag[1] + 256 * v.mag[2] + 65536 * v.mag[3] + 16777216 * v.mag[4]
    IN  IF v.neg THEN 0 - m ELSE m

FitsInt(v) == v.mag[4] < 128 /\ \A i \in 5..8 : v.mag[i] = 0

RECURSIVE Inc(_)
\* s + 1 on little-endian bytes, the carry out of the last byte dropped
Inc(s) ==
    IF s = <<>> THEN <<>>
    ELSE IF Head(s) = 255 THEN <<0>> \o Inc(Tail(s))
    ELSE <<Head(s) + 1>> \o Tail(s)

\* two's complement of little-endian bytes
TwosComplement(s) == Inc([i \in DOMAIN s |-> 255 - s[i]])

----------------------------------------------------------------------------
(* constants.py *)

SMA_SIGNATURE == <<83, 77, 65, 0>>
ETH_L2SIGNATURE == N32(\h6560, \h1000)
UG_USER == 7
UG_INSTALLER == 10
APP_SUSYID == 125
ANY_SUSYID == \hFFFF
ANY_SERIAL == N32(\hFFFF, \hFFFF)
MAX_RETRY == 3
NAN_S32 == N32(\h8000, 0)
NAN_U32 == N32(\hFFFF, \hFFFF)
NAN_S64 == [neg |-> FALSE, mag |-> <<0, 0, 0, 0, 0, 0, 0, 128>>]
NAN_U64 == [neg |-> FALSE, mag |-> <<255, 255, 255, 255, 255, 255, 255, 255>>]

\* class LriDef(IntEnum)
LriDef ==
    [OperationHealth |-> \h214800, CoolsysTmpNom |-> \h237700,
     DcMsWatt |-> \h251E00, MeteringTotWhOut |-> \h260100,
     MeteringDyWhOut |-> \h262200, GridMsTotW |-> \h263F00,
     BatChaStt |-> \h295A00, OperationHealthSttOk |-> \h411E00,
     OperationHealthSttWrn |-> \h411F00, OperationHealthSttAlm |-> \h412000,
     OperationGriSwStt |-> \h416400, OperationRmgTms |-> \h416600,
     DcMsVol |-> \h451F00, DcMsAmp |-> \h452100,
     MeteringPvMsTotWhOut |-> \h462300, MeteringGridMsTotWhOut |-> \h462400,
     MeteringGridMsTotWhIn |-> \h462500, MeteringTotOpTms |-> \h462E00,
     MeteringTotFeedTms |-> \h462F00, MeteringGridMsTotWOut |-> \h463600,
     MeteringGridMsTotWIn |-> \h463700, GridMsWphsA |-> \h464000,
     GridMsWphsB |-> \h464100, GridMsWphsC |-> \h464200,
     GridMsPhVphsA |-> \h464800, GridMsPhVphsB |-> \h464900,
     GridMsPhVphsC |-> \h464A00, GridMsAphsA_1 |-> \h465000,
     GridMsAphsB_1 |-> \h465100, GridMsAphsC_1 |-> \h465200,
     GridMsAphsA |-> \h465300, GridMsAphsB |-> \h465400,
     GridMsAphsC |-> \h465500, GridMsHz |-> \h465700,
     BatDiagCapacThrpCnt |-> \h491E00, BatDiagTotAhIn |-> \h492600,
     BatDiagTotAhOut |-> \h492700, BatTmpVal |-> \h495B00,
     BatVol |-> \h495C00, BatAmp |-> \h495D00,
     NameplateLocation |-> \h821E00, NameplateMainModel |-> \h821F00,
     NameplateModel |-> \h822000, NameplatePkgRev |-> \h823400]

\* [e.value for e in LriDef]
LriValues == {LriDef[n] : n \in DOMAIN LriDef}

\* DataType.DT_STATUS
DT_STATUS == 8

\* class DeviceClass(IntEnum)
DeviceClass ==
    [AllDevices |-> 8000, SolarInverter |-> 8001, WindTurbineInverter |-> 8002,
     BatteryInverter |-> 8007, ChargingStation |-> 8008, HybridInverter |-> 8009,
     Consumer |-> 8033, SensorSystem |-> 8064, ElectricityMeter |-> 8065]

----------------------------------------------------------------------------
(* protocol.py: PacketBuilder *)

write_byte(buf, value) == Append(buf, value % 256)

write_short(buf, value) ==
    buf \o <<value % 256, (value \div 256) % 256>>

\* struct.pack('<I', value & 0xFFFFFFFF)
write_long(buf, value) ==
    buf \o (IF value.neg THEN TwosComplement(SubSeq(value.mag, 1, 4))
            ELSE SubSeq(value.mag, 1, 4))

write_array(buf, bytes) == buf \o bytes

build_eth_header ==
    write_byte(
        write_byte(
            write_long(
                write_long(SMA_SIGNATURE, N32(\hA002, \h0400)),
                N32(\hFFFF, \hFFFF)),
            0),
        0)

\* packet_id | 0x8000
WithHighBit(pid) == IF (pid \div 32768) % 2 = 1 THEN pid ELSE pid + 32768

\* mutant: the source endpoint carries the destination's serial
build_packet_SourceFromDestination(buf, longwords, ctrl, ctrl2, dst_susy_id, dst_serial, serial, pid) ==
    LET b1 == write_long(buf, ETH_L2SIGNATURE)
        b2 == write_byte(b1, longwords)
        b3 == write_byte(b2, ctrl)
        b4 == write_short(b3, dst_susy_id)
        b5 == write_long(b4, dst_serial)
        b6 == write_short(b5, ctrl2)
        b7 == write_short(b6, APP_SUSYID)
        b8 == write_long(b7, dst_serial)
        b9 == write_short(b8, ctrl2)
        b10 == write_short(b9, 0)
        b11 == write_short(b10, 0)
    IN  write_short(b11, WithHighBit(pid))

build_packet(buf, longwords, ctrl, ctrl2, dst_susy_id, dst_serial, serial, pid) ==
    LET b1 == write_long(buf, ETH_L2SIGNATURE)
        b2 == write_byte(b1, longwords)
        b3 == write_byte(b2, ctrl)
        b4 == write_short(b3, dst_susy_id)
        b5 == write_long(b4, dst_serial)
        b6 == write_short(b5, ctrl2)
        b7 == write_short(b6, APP_SUSYID)
        b8 == write_long(b7, serial)
        b9 == write_short(b8, ctrl2)
        b10 == write_short(b9, 0)
        b11 == write_short(b10, 0)
    IN  write_short(b11, WithHighBit(pid))

build_packet_trailer(buf) == write_long(buf, NumOf(0))

\* mutant: the length stored low byte first
finalize_packet_length_LittleEndian(buf) ==
    LET data_length == Len(buf) - 14
    IN  [buf EXCEPT ![13] = data_length % 256,
                    ![14] = (data_length \div 256) % 256]

finalize_packet_length(buf) ==
    LET data_length == Len(buf) - 14
    IN  [buf EXCEPT ![13] = (data_length \div 256) % 256,
                    ![14] = data_length % 256]

\* mutant: the index wraps to 0
next_packet_id_WrapToZero(pid) == IF pid + 1 > \h7FFF THEN 0 ELSE pid + 1

next_packet_id(pid) == IF pid + 1 > \h7FFF THEN 1 ELSE pid + 1

\* mutant: the discovery build advances the packet index
build_discovery_packet_Advancing(pid) ==
    LET b1 == write_long(<<>>, N32(\h0041, \h4D53))
        b2 == write_long(b1, N32(\hA002, \h0400))
        b3 == write_long(b2, N32(\hFFFF, \hFFFF))
        b4 == write_long(b3, N32(\h2000, \h0000))
        b5 == write_long(b4, NumOf(0))
    IN  [packet_id |-> next_packet_id(pid), buffer |-> b5]

\* Every build_* operator returns the builder's new packet_id and buffer; the
\* buffer is the frame the method returns (get_packet).
build_discovery_packet(pid) ==
    LET b1 == write_long(<<>>, N32(\h0041, \h4D53))
        b2 == write_long(b1, N32(\hA002, \h0400))
        b3 == write_long(b2, N32(\hFFFF, \hFFFF))
        b4 == write_long(b3, N32(\h2000, \h0000))
        b5 == write_long(b4, NumOf(0))
    IN  [packet_id |-> pid, buffer |-> b5]

build_init_packet(pid0, serial, dst_susy_id, dst_serial) ==
    LET pid == next_packet_id(pid0)
        b1 == build_packet(build_eth_header, 9, \hA0, 0,
                           dst_susy_id, dst_serial, serial, pid)
        b2 == write_long(b1, N32(0, \h0200))
        b3 == write_long(b2, NumOf(0))
        b4 == write_long(b3, NumOf(0))
        b5 == write_long(b4, NumOf(0))
    IN  [packet_id |-> pid,
         buffer |-> finalize_packet_length(build_packet_trailer(b5))]

\* mutant: the unused positions of the password field left zero
EncodePassword_ZeroPadding(password, user_group) ==
    LET enc_char == IF user_group = UG_USER THEN \h88 ELSE \hBB
    IN  [i \in 1..12 |->
            IF i <= Len(password) THEN (password[i] + enc_char) % 256
            ELSE 0]

\* the 12-byte password field of build_login_packet
EncodePassword(password, user_group) ==
    LET enc_char == IF user_group = UG_USER THEN \h88 ELSE \hBB
    IN  [i \in 1..12 |->
            IF i <= Len(password) THEN (password[i] + enc_char) % 256
            ELSE enc_char]

\* now is int(time.time())
build_login_packet(pid0, serial, dst_susy_id, dst_serial, password, user_group, now) ==
    LET pid == next_packet_id(pid0)
        pw == EncodePassword(password, user_group)
        b1 == build_packet(build_eth_header, \h0E, \hA0, \h0100,
                           dst_susy_id, dst_serial, serial, pid)
        b2 == write_long(b1, N32(\hFFFD, \h040C))
        b3 == write_long(b2, NumOf(user_group))
        b4 == write_long(b3, N32(0, \h0384))
        b5 == write_long(b4, now)
        b6 == write_long(b5, NumOf(0))
        b7 == write_array(b6, pw)
    IN  [packet_id |-> pid,
         buffer |-> finalize_packet_length(build_packet_trailer(b7))]

build_logoff_packet(pid0, serial) ==
    LET pid == next_packet_id(pid0)
        b1 == build_packet(build_eth_header, 8, \hA0, \h0300,
                           ANY_SUSYID, ANY_SERIAL, serial, pid)
        b2 == write_long(b1, N32(\hFFFD, \h010E))
        b3 == write_long(b2, N32(\hFFFF, \hFFFF))
    IN  [packet_id |-> pid,
         buffer |-> finalize_packet_length(build_packet_trailer(b3))]

build_data_request_packet(pid0, serial, dst_susy_id, dst_serial, command, first, last) ==
    LET pid == next_packet_id(pid0)
        b1 == build_packet(build_eth_header, 9, \hA0, 0,
                           dst_susy_id, dst_serial, serial, pid)
        b2 == write_long(b1, command)
        b3 == write_long(b2, first)
        b4 == write_long(b3, last)
    IN  [packet_id |-> pid,
         buffer |-> finalize_packet_length(build_packet_trailer(b4))]

----------------------------------------------------------------------------
(* protocol.py: readers *)

\* struct.unpack_from raises struct.error unless the bytes lie inside buf
CanRead(buf, offset, n) == offset >= 0 /\ offset + n <= Len(buf)

BytesAt(buf, offset, n) == SubSeq(buf, offset + 1, offset + n)

get_short(buf, offset) == buf[offset + 1] + 256 * buf[offset + 2]

get_long(buf, offset) ==
    [neg |-> FALSE, mag |-> BytesAt(buf, offset, 4) \o <<0, 0, 0, 0>>]

get_long_signed(buf, offset) ==
    LET b == BytesAt(buf, offset, 4)
    IN  IF b[4] >= 128
        THEN [neg |-> TRUE, mag |-> TwosComplement(b) \o <<0, 0, 0, 0>>]
        ELSE [neg |-> FALSE, mag |-> b \o <<0, 0, 0, 0>>]

get_longlong(buf, offset) == [neg |-> FALSE, mag |-> BytesAt(buf, offset, 8)]

is_nan(value, signed, bits) ==
    IF bits = 32
    THEN (IF signed THEN value = NAN_S32 ELSE value = NAN_U32)
    ELSE (IF signed THEN value = NAN_S64 ELSE value = NAN_U64)

version_to_string(version) ==
    <<version.mag[4], version.mag[3], version.mag[2],
      IF version.mag[1] # 0 THEN <<version.mag[1]>> ELSE <<>>>>

----------------------------------------------------------------------------
(* models.py: InverterData.  Integers are wide integers, a string is a    *)
(* tuple (the empty string is <<>>), None is <<>> and a datetime is <<ts>> *)

MPPTData == [pdc |-> NumOf(0), udc |-> NumOf(0), idc |-> NumOf(0)]

InverterData(ip, susy_id, serial) ==
    [ip_address |-> ip, susy_id |-> susy_id, serial |-> serial,
     device_name |-> <<>>, device_type |-> <<>>, device_class |-> <<>>,
     device_class_id |-> NumOf(0), sw_version |-> <<>>,
     device_status |-> NumOf(0), grid_relay_status |-> NumOf(0),
     total_pac |-> NumOf(0), pac1 |-> NumOf(0), pac2 |-> NumOf(0),
     pac3 |-> NumOf(0), uac1 |-> NumOf(0), uac2 |-> NumOf(0),
     uac3 |-> NumOf(0), iac1 |-> NumOf(0), iac2 |-> NumOf(0),
     iac3 |-> NumOf(0), grid_freq |-> NumOf(0), mpp |-> <<>>,
     e_today |-> NumOf(0), e_total |-> NumOf(0),
     operation_time |-> NumOf(0), feed_in_time |-> NumOf(0),
     temperature |-> NumOf(0), bat_charge_status |-> NumOf(0),
     bat_voltage |-> NumOf(0), bat_current |-> NumOf(0),
     bat_temperature |-> NumOf(0), has_battery |-> FALSE,
     metering_grid_w_out |-> NumOf(0), metering_grid_w_in |-> NumOf(0),
     day_data |-> <<>>, has_day_data |-> FALSE,
     inverter_datetime |-> <<>>, wakeup_time |-> <<>>, sleep_time |-> <<>>]

\* InverterData(): ip_address "", susy_id 0, serial 0
DefaultInverter == InverterData(<<>>, 0, NumOf(0))

----------------------------------------------------------------------------
(* sbfspot.py: the field mapper and the record decoder *)

\* mutant: the value is written to every attribute of the slot
SetMpp_EveryAttribute(inv, cls, attr, value) ==
    [inv EXCEPT !.mpp =
        [c \in (DOMAIN inv.mpp) \cup {cls} |->
            IF c = cls THEN [pdc |-> value, udc |-> value, idc |-> value]
            ELSE inv.mpp[c]]]

\* self.inverter.mpp[cls].<attr> = value, the slot created when absent
SetMpp(inv, cls, attr, value) ==
    LET cur == IF cls \in DOMAIN inv.mpp THEN inv.mpp[cls] ELSE MPPTData
    IN  [inv EXCEPT !.mpp =
            [c \in (DOMAIN inv.mpp) \cup {cls} |->
                IF c = cls THEN [cur EXCEPT ![attr] = value] ELSE inv.mpp[c]]]

RECURSIVE RStripZeros(_)
\* bytes.rstrip(b'\x00')
RStripZeros(b) ==
    IF b # <<>> /\ b[Len(b)] = 0 THEN RStripZeros(SubSeq(b, 1, Len(b) - 1)) ELSE b

IsLess128(x) == x < 128

\* decode('utf-8', errors='ignore') of bytes in which every byte >= 128 is
\* an invalid sequence: those bytes are dropped
DecodeIgnore(b) == SelectSeq(b, IsLess128)

\* DeviceClass(attr).name, or f"Class_{attr}" on ValueError
DeviceClassName(attr) ==
    IF FitsInt(attr) /\ \E n \in DOMAIN DeviceClass : DeviceClass[n] = ToInt(attr)
    THEN <<CHOOSE n \in DOMAIN DeviceClass : DeviceClass[n] = ToInt(attr)>>
    ELSE <<"Class_", attr>>

\* lri is the value of the LriDef member; the reads at pos + 8 and pos + 24
\* lie inside the record, which _parse_records has checked to lie in data
map_lri_value(inv, lri, cls, data_type, value, timestamp, data, pos, record_size) ==
    LET dt == IF timestamp # NumOf(0) THEN <<timestamp>> ELSE <<>>
        L == LriDef
        status == data_type = DT_STATUS /\ record_size >= 12
    IN  CASE lri = L.GridMsTotW -> [inv EXCEPT !.total_pac = value, !.sleep_time = dt]
          [] lri = L.GridMsWphsA -> [inv EXCEPT !.pac1 = value]
          [] lri = L.GridMsWphsB -> [inv EXCEPT !.pac2 = value]
          [] lri = L.GridMsWphsC -> [inv EXCEPT !.pac3 = value]
          [] lri = L.GridMsPhVphsA -> [inv EXCEPT !.uac1 = value]
          [] lri = L.GridMsPhVphsB -> [inv EXCEPT !.uac2 = value]
          [] lri = L.GridMsPhVphsC -> [inv EXCEPT !.uac3 = value]
          [] lri \in {L.GridMsAphsA_1, L.GridMsAphsA} -> [inv EXCEPT !.iac1 = value]
          [] lri \in {L.GridMsAphsB_1, L.GridMsAphsB} -> [inv EXCEPT !.iac2 = value]
          [] lri \in {L.GridMsAphsC_1, L.GridMsAphsC} -> [inv EXCEPT !.iac3 = value]
          [] lri = L.GridMsHz -> [inv EXCEPT !.grid_freq = value]
          [] lri = L.DcMsWatt -> SetMpp(inv, cls, "pdc", value)
          [] lri = L.DcMsVol -> SetMpp(inv, cls, "udc", value)
          [] lri = L.DcMsAmp -> SetMpp(inv, cls, "idc", value)
          [] lri = L.MeteringTotWhOut ->
                [inv EXCEPT !.e_total = value, !.inverter_datetime = dt]
          [] lri = L.MeteringDyWhOut ->
                [inv EXCEPT !.e_today = value, !.inverter_datetime = dt]
          [] lri = L.MeteringTotOpTms -> [inv EXCEPT !.operation_time = value]
          [] lri = L.MeteringTotFeedTms -> [inv EXCEPT !.feed_in_time = value]
          [] lri = L.NameplateLocation ->
                IF record_size > 8
                THEN [inv EXCEPT
                        !.device_name =
                            DecodeIgnore(RStripZeros(
                                SubSeq(data, pos + 8 + 1, pos + record_size))),
                        !.wakeup_time = dt]
                ELSE inv
          [] lri = L.NameplatePkgRev ->
                IF record_size >= 28
                THEN [inv EXCEPT !.sw_version =
                                    version_to_string(get_long(data, pos + 24))]
                ELSE inv
          [] lri = L.NameplateModel ->
                IF status
                THEN [inv EXCEPT !.device_type = <<"Type_", get_long(data, pos + 8)>>]
                ELSE inv
          [] lri = L.NameplateMainModel ->
                IF status
                THEN [inv EXCEPT
                        !.device_class_id = get_long(data, pos + 8),
                        !.device_class = DeviceClassName(get_long(data, pos + 8))]
                ELSE inv
          [] lri = L.OperationHealth ->
                IF status
                THEN [inv EXCEPT !.device_status = get_long(data, pos + 8)]
                ELSE inv
          [] lri = L.OperationGriSwStt ->
                IF status
                THEN [inv EXCEPT !.grid_relay_status = get_long(data, pos + 8)]
                ELSE inv
          [] lri = L.CoolsysTmpNom -> [inv EXCEPT !.temperature = value]
          [] lri = L.BatChaStt ->
                [inv EXCEPT !.bat_charge_status = value, !.has_battery = TRUE]
          [] lri = L.BatVol -> [inv EXCEPT !.bat_voltage = value]
          [] lri = L.BatAmp -> [inv EXCEPT !.bat_current = value]
          [] lri = L.BatTmpVal -> [inv EXCEPT !.bat_temperature = value]
          [] lri = L.MeteringGridMsTotWOut -> [inv EXCEPT !.metering_grid_w_out = value]
          [] lri = L.MeteringGridMsTotWIn -> [inv EXCEPT !.metering_grid_w_in = value]
          [] OTHER -> inv

\* code & 0x00FFFF00 of the tag read by get_long
MeasurementCode(code) == 256 * code.mag[2] + 65536 * code.mag[3]

\* the value of one record, as _parse_records reads and normalizes it
RecordValue(data, pos, record_size) ==
    IF record_size = 16
    THEN LET value64 == get_longlong(data, pos + 8)
         IN  IF is_nan(value64, FALSE, 64) THEN NumOf(0) ELSE value64
    ELSE LET value == IF record_size >= 20 THEN get_long_signed(data, pos + 16)
                      ELSE get_long_signed(data, pos + 8)
         IN  IF is_nan(value, TRUE, 32) \/ is_nan(value, FALSE, 32)
             THEN NumOf(0) ELSE value

\* the bytes RecordValue reads lie inside data
CanReadValue(data, pos, record_size) ==
    IF record_size = 16 THEN CanRead(data, pos + 8, 8)
    ELSE IF record_size >= 20 THEN CanRead(data, pos + 16, 4)
    ELSE CanRead(data, pos + 8, 4)

RECURSIVE parse_records_StopsAtUnknown(_, _, _, _)
\* mutant: a record of an unknown measurement code ends the loop
parse_records_StopsAtUnknown(data, pos, record_size, inv) ==
    LET end == Len(data) - 4
    IN  IF ~(pos + record_size <= end) THEN [inv |-> inv, raised |-> FALSE]
        ELSE IF ~CanRead(data, pos, 8) THEN [inv |-> inv, raised |-> TRUE]
        ELSE
          LET code == get_long(data, pos)
              cls == code.mag[1]
              data_type == code.mag[4]
              timestamp == get_long(data, pos + 4)
          IN  IF MeasurementCode(code) \notin LriValues
              THEN [inv |-> inv, raised |-> FALSE]
              ELSE IF ~CanReadValue(data, pos, record_size)
              THEN [inv |-> inv, raised |-> TRUE]
              ELSE parse_records_StopsAtUnknown(data, pos + record_size, record_size,
                      map_lri_value(inv, MeasurementCode(code), cls, data_type,
                                    RecordValue(data, pos, record_size),
                                    timestamp, data, pos, record_size))

RECURSIVE parse_records(_, _, _, _)
\* the loop of _parse_records from position pos on; raised: a read raised
\* struct.error
parse_records(data, pos, record_size, inv) ==
    LET end == Len(data) - 4
    IN  IF ~(pos + record_size <= end) THEN [inv |-> inv, raised |-> FALSE]
        ELSE IF ~CanRead(data, pos, 8) THEN [inv |-> inv, raised |-> TRUE]
        ELSE
          LET code == get_long(data, pos)
              cls == code.mag[1]
              data_type == code.mag[4]
              timestamp == get_long(data, pos + 4)
          IN  IF MeasurementCode(code) \notin LriValues
              THEN parse_records(data, pos + record_size, record_size, inv)
              ELSE IF ~CanReadValue(data, pos, record_size)
              THEN [inv |-> inv, raised |-> TRUE]
              ELSE parse_records(data, pos + record_size, record_size,
                      map_lri_value(inv, MeasurementCode(code), cls, data_type,
                                    RecordValue(data, pos, record_size),
                                    timestamp, data, pos, record_size))

\* mutant: the version word is read whatever the record size
record_reads_VersionUnguarded(data, pos, record_size) ==
    LET code == get_long(data, pos)
        lri == MeasurementCode(code)
    IN  {<<pos, 4>>, <<pos + 4, 4>>}
        \cup (IF lri = LriDef.NameplatePkgRev THEN {<<pos + 24, 4>>} ELSE {})

\* the parts <<offset, length>> of data that one turn of the loop of
\* _parse_records reads for the record at pos: the code and the timestamp,
\* and for a known measurement code the value and what _map_lri_value reads
record_reads(data, pos, record_size) ==
    LET code == get_long(data, pos)
        lri == MeasurementCode(code)
        L == LriDef
        status == code.mag[4] = DT_STATUS /\ record_size >= 12
        head == {<<pos, 4>>, <<pos + 4, 4>>}
        value == IF record_size = 16 THEN {<<pos + 8, 8>>}
                 ELSE IF record_size >= 20 THEN {<<pos + 16, 4>>}
                 ELSE {<<pos + 8, 4>>}
        mapped ==
            CASE lri = L.NameplateLocation ->
                    IF record_size > 8 THEN {<<pos + 8, record_size - 8>>} ELSE {}
              [] lri = L.NameplatePkgRev ->
                    IF record_size >= 28 THEN {<<pos + 24, 4>>} ELSE {}
              [] lri \in {L.NameplateModel, L.NameplateMainModel,
                          L.OperationHealth, L.OperationGriSwStt} ->
                    IF status THEN {<<pos + 8, 4>>} ELSE {}
              [] OTHER -> {}
    IN  IF lri \notin LriValues THEN head ELSE head \cup value \cup mapped

RECURSIVE records_read(_, _, _)
\* the turns of the loop of _parse_records from position pos on, each with
\* the position of its record and the parts of data it reads
records_read(data, pos, record_size) ==
    IF ~(pos + record_size <= Len(data) - 4) THEN <<>>
    ELSE <<[pos |-> pos, reads |-> record_reads(data, pos, record_size)]>>
         \o records_read(data, pos + record_size, record_size)

Max(a, b) == IF a > b THEN a ELSE b

\* mutant: the computed record size has no floor
CandidateSize_NoFloor(data) ==
    LET first_lri == ToInt(get_long(data, 46))
        last_lri == ToInt(get_long(data, 50))
        num_records == IF last_lri > first_lri THEN last_lri - first_lri + 1 ELSE 1
        payload_len == Len(data) - 54 - 4
    IN  IF num_records > 0 /\ payload_len > 0
        THEN payload_len \div num_records
        ELSE 28

\* the record size _parse_data_response computes from a reply of >= 54 bytes
CandidateSize(data) ==
    LET first_lri == ToInt(get_long(data, 46))
        last_lri == ToInt(get_long(data, 50))
        num_records == IF last_lri > first_lri THEN last_lri - first_lri + 1 ELSE 1
        payload_len == Len(data) - 54 - 4
    IN  IF num_records > 0 /\ payload_len > 0
        THEN Max(12, payload_len \div num_records)
        ELSE 28

\* for try_size in [...]: try: _parse_records; break / except (IndexError,
\* struct.error): continue.  The break ends the loop at the first size that
\* does not raise.  struct is no name of module sbfspot, so when
\* _parse_records raises, evaluating the except clause raises NameError.
TrySizes(data, sizes, inv) ==
    IF sizes = <<>> THEN [inv |-> inv, error |-> "ok"]
    ELSE LET r == parse_records(data, 54, Head(sizes), inv)
         IN  IF r.raised THEN [inv |-> r.inv, error |-> "NameError"]
             ELSE [inv |-> r.inv, error |-> "ok"]

\* _parse_data_response: the new InverterData and "ok" or the exception raised
parse_data_response(data, inv) ==
    IF Len(data) <= 18 THEN [inv |-> inv, error |-> "IndexError"]
    ELSE IF Len(data) < 54 THEN [inv |-> inv, error |-> "struct.error"]
    ELSE TrySizes(data, <<CandidateSize(data), 28, 16, 40, 12>>, inv)

----------------------------------------------------------------------------
(* sbfspot.py: the archive (historical) decoder.  A float is the exact    *)
(* quotient <<numerator, denominator>>; 0.0 is <<0, 1>>.                  *)

\* mutant: the power is derived for every later timestamp, also from the
\* initial prev_ts = 0
DerivedWatt_NoPredecessorTest(prev_ts, prev_total_wh, ts, total_wh) ==
    IF ts > prev_ts
    THEN <<(total_wh - prev_total_wh) * 3600, ts - prev_ts>>
    ELSE <<0, 1>>

\* watt = 0.0; if prev_ts > 0 and ts > prev_ts: watt = (total_wh -
\* prev_total_wh) * 3600.0 / (ts - prev_ts)
DerivedWatt(prev_ts, prev_total_wh, ts, total_wh) ==
    IF prev_ts > 0 /\ ts > prev_ts
    THEN <<(total_wh - prev_total_wh) * 3600, ts - prev_ts>>
    ELSE <<0, 1>>

RECURSIVE parse_archive_records_SkippedIsPredecessor(_, _, _, _, _)
\* mutant: a skipped record becomes the predecessor, with energy 0
parse_archive_records_SkippedIsPredecessor(data, pos, prev_ts, prev_total_wh, day_data) ==
    IF ~(pos + 12 <= Len(data) - 4) THEN day_data
    ELSE LET ts == get_long(data, pos)
             total_wh == get_longlong(data, pos + 4)
         IN  IF ts # NumOf(0) /\ ~is_nan(total_wh, FALSE, 64)
             THEN parse_archive_records_SkippedIsPredecessor(data, pos + 12,
                    ToInt(ts), ToInt(total_wh),
                    Append(day_data,
                           [datetime |-> <<ts>>,
                            total_wh |-> total_wh,
                            watt |-> DerivedWatt(prev_ts, prev_total_wh,
                                                 ToInt(ts), ToInt(total_wh))]))
             ELSE parse_archive_records_SkippedIsPredecessor(data, pos + 12,
                    ToInt(ts), 0, day_data)

RECURSIVE parse_archive_records(_, _, _, _, _)
\* the loop of _parse_archive_response from position pos on: the samples
\* appended to day_data
parse_archive_records(data, pos, prev_ts, prev_total_wh, day_data) ==
    IF ~(pos + 12 <= Len(data) - 4) THEN day_data
    ELSE LET ts == get_long(data, pos)
             total_wh == get_longlong(data, pos + 4)
         IN  IF ts # NumOf(0) /\ ~is_nan(total_wh, FALSE, 64)
             THEN parse_archive_records(data, pos + 12, ToInt(ts), ToInt(total_wh),
                    Append(day_data,
                           [datetime |-> <<ts>>,
                            total_wh |-> total_wh,
                            watt |-> DerivedWatt(prev_ts, prev_total_wh,
                                                 ToInt(ts), ToInt(total_wh))]))
             ELSE parse_archive_records(data, pos + 12, prev_ts, prev_total_wh,
                                        day_data)

\* _parse_archive_response: no read of it lies outside data
parse_archive_response(data, inv) ==
    LET day_data == parse_archive_records(data, 54, 0, 0, <<>>)
    IN  [inv EXCEPT !.day_data = day_data,
                    !.has_day_data = IF day_data # <<>> THEN TRUE ELSE @]

----------------------------------------------------------------------------
(* ethernet.py and sbfspot.py: the session.  A datagram is                 *)
(* [data, sender]; what a receive returns is [none, data, sender], none    *)
(* standing for (None, ''); an exception is [class, text, digits], text    *)
(* being the fixed part of its message and digits the formatted number.    *)

max_attempts == 10
ignore_sizes == {600, 608}

NoneReceived == [none |-> TRUE, data |-> <<>>, sender |-> <<>>]

RECURSIVE receive_with_filter_AnySender(_, _, _)
\* mutant: the sender is not compared with expected_ip
receive_with_filter_AnySender(arrivals, expected_ip, attempts) ==
    IF attempts = 0 \/ arrivals = <<>> THEN NoneReceived
    ELSE LET a == Head(arrivals)
         IN  IF Len(a.data) \in ignore_sizes
             THEN receive_with_filter_AnySender(Tail(arrivals), expected_ip,
                                                attempts - 1)
             ELSE [none |-> FALSE, data |-> a.data, sender |-> a.sender]

RECURSIVE receive_with_filter(_, _, _)
\* arrivals: the datagrams the socket delivers, in order; once they are
\* used up the next receive() ends in socket.timeout
receive_with_filter(arrivals, expected_ip, attempts) ==
    IF attempts = 0 \/ arrivals = <<>> THEN NoneReceived
    ELSE LET a == Head(arrivals)
         IN  IF Len(a.data) \in ignore_sizes
             THEN receive_with_filter(Tail(arrivals), expected_ip, attempts - 1)
             ELSE IF expected_ip # <<>> /\ a.sender # expected_ip
             THEN receive_with_filter(Tail(arrivals), expected_ip, attempts - 1)
             ELSE [none |-> FALSE, data |-> a.data, sender |-> a.sender]

\* "not data" of connect and login: None or an empty datagram
NotData(received) == received.none \/ received.data = <<>>

\* parse_packet_header raises struct.error unless all five reads lie in
\* the packet
CanParseHeader(packet) ==
    /\ CanRead(packet, 28, 2)
    /\ CanRead(packet, 30, 4)
    /\ CanRead(packet, 36, 2)
    /\ CanRead(packet, 38, 2)
    /\ CanRead(packet, 40, 2)

\* mutant: the identity is read from the destination endpoint of the reply
parse_packet_header_Destination(packet) ==
    [src_susy_id |-> get_short(packet, 20),
     src_serial |-> get_long(packet, 22),
     error_code |-> get_short(packet, 36),
     fragment_id |-> get_short(packet, 38),
     packet_id |-> get_short(packet, 40) % 32768]

parse_packet_header(packet) ==
    [src_susy_id |-> get_short(packet, 28),
     src_serial |-> get_long(packet, 30),
     error_code |-> get_short(packet, 36),
     fragment_id |-> get_short(packet, 38),
     packet_id |-> get_short(packet, 40) % 32768]

NoExc == [class |-> "", text |-> "", digits |-> <<>>]
Exc(class, text) == [class |-> class, text |-> text, digits |-> <<>>]

\* class SBFspotError(Exception), ConnectionError(SBFspotError),
\* AuthenticationError(SBFspotError); RuntimeError and struct.error are
\* built in
BaseOf(class) ==
    IF class \in {"ConnectionError", "AuthenticationError"}
    THEN "SBFspotError" ELSE "Exception"
IsA(class, base) == class = base \/ BaseOf(class) = base \/ base = "Exception"

RECURSIVE HexDigits(_)
\* the digits of f"{n:x}", most significant first
HexDigits(n) == IF n < 16 THEN <<n>> ELSE HexDigits(n \div 16) \o <<n % 16>>

\* mutant: every non-zero code is reported as an invalid password
login_error_AlwaysInvalidPassword(error_code) ==
    Exc("AuthenticationError", "Invalid password")

\* the exception login raises for a non-zero error code
login_error(error_code) ==
    IF error_code = \h0100
    THEN Exc("AuthenticationError", "Invalid password")
    ELSE [class |-> "AuthenticationError",
          text |-> "Login failed with error code: 0x",
          digits |-> HexDigits(error_code)]

\* mutant: a failed login clears the logged-in flag
login_reply_ClearsFlag(received, was_logged_in) ==
    IF NotData(received)
    THEN [logged_in |-> FALSE, ret |-> "raise",
          exc |-> Exc("AuthenticationError", "No response to login request")]
    ELSE IF ~CanParseHeader(received.data)
    THEN [logged_in |-> FALSE, ret |-> "raise",
          exc |-> Exc("struct.error", "unpack_from requires a buffer")]
    ELSE LET error_code == parse_packet_header(received.data).error_code
         IN  IF error_code # 0
             THEN [logged_in |-> FALSE, ret |-> "raise",
                   exc |-> login_error(error_code)]
             ELSE [logged_in |-> TRUE, ret |-> "True", exc |-> NoExc]

\* login from the reply on: the flag, the return value and the exception
login_reply(received, was_logged_in) ==
    IF NotData(received)
    THEN [logged_in |-> was_logged_in, ret |-> "raise",
          exc |-> Exc("AuthenticationError", "No response to login request")]
    ELSE IF ~CanParseHeader(received.data)
    THEN [logged_in |-> was_logged_in, ret |-> "raise",
          exc |-> Exc("struct.error", "unpack_from requires a buffer")]
    ELSE LET error_code == parse_packet_header(received.data).error_code
         IN  IF error_code # 0
             THEN [logged_in |-> was_logged_in, ret |-> "raise",
                   exc |-> login_error(error_code)]
             ELSE [logged_in |-> TRUE, ret |-> "True", exc |-> NoExc]

\* a call in progress: the fields of the session, the frames the call has
\* sent, the datagram it has accepted, and how it ends
Entry ==
    [sock |-> sock, ip_address |-> ip_address, connected |-> connected,
     logged_in |-> logged_in, packet_id |-> packet_id, buffer |-> buffer,
     inverter |-> inverter, sent |-> <<>>, reply |-> NoneReceived,
     ret |-> "None", exc |-> NoExc]

Raise(s, exc) == [s EXCEPT !.ret = "raise", !.exc = exc]

\* eth.send(packet, ip_address) with the socket set
Sent(s, packet) ==
    [s EXCEPT !.sent = Append(@, [data |-> packet, to |-> s.ip_address])]

SocketNotConnected == Exc("RuntimeError", "Socket not connected")
StructError == Exc("struct.error", "unpack_from requires a buffer")

\* the element of a set of one element: The({F(x) : x \in {e}}) is F(e)
\* with e evaluated once
The(S) == CHOOSE x \in S : TRUE

\* SBFspot._send_logoff
send_logoff(s) ==
    The({IF ~s1.sock THEN Raise(s1, SocketNotConnected)
         ELSE Sent(s1, s1.buffer) :
         s1 \in {The({[s EXCEPT !.packet_id = logoff.packet_id,
                                !.buffer = logoff.buffer] :
                      logoff \in {build_logoff_packet(s.packet_id, app_serial)}})}})

\* SBFspot.connect(target); target <<>> is None; socket_created is whether
\* eth.connect(), if called, sets the socket
connect(s, target, socket_created, arrivals) ==
    LET identified(s2) ==
            The({The({IF s4.ret = "raise" THEN s4 ELSE [s4 EXCEPT !.ret = "True"] :
                      s4 \in {send_logoff([s2 EXCEPT
                                 !.inverter = InverterData(s2.ip_address,
                                                  h.src_susy_id, h.src_serial),
                                 !.connected = TRUE])}}) :
                 h \in {parse_packet_header(s2.reply.data)}})
        sent(s2) ==
            IF NotData(s2.reply)
            THEN Raise(s2, Exc("ConnectionError", "No response from inverter at "))
            ELSE IF ~CanParseHeader(s2.reply.data) THEN Raise(s2, StructError)
            ELSE identified(s2)
        built(s1) ==
            IF ~s1.sock THEN Raise(s1, SocketNotConnected)
            ELSE The({sent(s2) :
                      s2 \in {[Sent(s1, s1.buffer) EXCEPT
                                 !.reply = receive_with_filter(arrivals,
                                              s1.ip_address, max_attempts)]}})
        addressed(s0) ==
            IF s0.ip_address = <<>>
            THEN Raise(s0, Exc("ConnectionError", "No IP address specified"))
            ELSE The({built(s1) :
                      s1 \in {The({[s0 EXCEPT !.sock = @ \/ socket_created,
                                              !.packet_id = init.packet_id,
                                              !.buffer = init.buffer] :
                                   init \in {build_init_packet(s0.packet_id,
                                                app_serial, ANY_SUSYID,
                                                ANY_SERIAL)}})}})
    IN  The({addressed(s0) :
             s0 \in {IF target # <<>> THEN [s EXCEPT !.ip_address = target]
                     ELSE s}})

\* mutant: the login frame is addressed to the wildcard identity
login_exchange_Wildcard(s, password, user_group, now, arrivals) ==
    LET sent(s2) ==
            The({[s2 EXCEPT !.logged_in = r.logged_in, !.ret = r.ret,
                            !.exc = r.exc] :
                 r \in {login_reply(s2.reply, s.logged_in)}})
        built(s1) ==
            IF ~s1.sock THEN Raise(s1, SocketNotConnected)
            ELSE The({sent(s2) :
                      s2 \in {[Sent(s1, s1.buffer) EXCEPT
                                 !.reply = receive_with_filter(arrivals,
                                              s1.ip_address, max_attempts)]}})
    IN  The({built(s1) :
             s1 \in {The({[s EXCEPT !.packet_id = login_packet.packet_id,
                                    !.buffer = login_packet.buffer] :
                          login_packet \in
                            {build_login_packet(s.packet_id, app_serial,
                                 ANY_SUSYID, ANY_SERIAL,
                                 password, user_group, now)}})}})

\* the login frame built and sent, and the reply handled
login_exchange(s, password, user_group, now, arrivals) ==
    LET sent(s2) ==
            The({[s2 EXCEPT !.logged_in = r.logged_in, !.ret = r.ret,
                            !.exc = r.exc] :
                 r \in {login_reply(s2.reply, s.logged_in)}})
        built(s1) ==
            IF ~s1.sock THEN Raise(s1, SocketNotConnected)
            ELSE The({sent(s2) :
                      s2 \in {[Sent(s1, s1.buffer) EXCEPT
                                 !.reply = receive_with_filter(arrivals,
                                              s1.ip_address, max_attempts)]}})
    IN  The({built(s1) :
             s1 \in {The({[s EXCEPT !.packet_id = login_packet.packet_id,
                                    !.buffer = login_packet.buffer] :
                          login_packet \in
                            {build_login_packet(s.packet_id, app_serial,
                                 s.inverter.susy_id, s.inverter.serial,
                                 password, user_group, now)}})}})

\* mutant: login does not test _connected
login_Unguarded(s, password, user_group, now, arrivals) ==
    login_exchange(s, password, user_group, now, arrivals)

\* SBFspot.login(user_group); now is int(time.time()) of the login frame
login(s, password, user_group, now, arrivals) ==
    IF ~s.connected
    THEN Raise(s, Exc("ConnectionError", "Not connected. Call connect() first."))
    ELSE login_exchange(s, password, user_group, now, arrivals)

\* self._send_logoff(); self._logged_in = False
logged_out(s) ==
    The({IF s1.ret = "raise" THEN s1 ELSE [s1 EXCEPT !.logged_in = FALSE] :
         s1 \in {send_logoff(s)}})

\* mutant: logout sends the logoff frame whether logged in or not
logout_Unguarded(s) == logged_out(s)

\* SBFspot.logout
logout(s) == IF s.logged_in THEN logged_out(s) ELSE s

\* mutant: close does not log out first
close_StaysLoggedIn(s) == [s EXCEPT !.sock = FALSE, !.connected = FALSE]

\* SBFspot.close
close(s) ==
    The({IF s1.ret = "raise" THEN s1
         ELSE [s1 EXCEPT !.sock = FALSE, !.connected = FALSE] :
         s1 \in {IF s.logged_in THEN logout(s) ELSE s}})

COMMANDS ==
    [EnergyProduction |-> <<N32(\h5400, \h0200), N32(\h0026, \h0100), N32(\h0026, \h22FF)>>,
     SpotDCPower |-> <<N32(\h5380, \h0200), N32(\h0025, \h1E00), N32(\h0025, \h1EFF)>>,
     SpotDCVoltage |-> <<N32(\h5380, \h0200), N32(\h0045, \h1F00), N32(\h0045, \h21FF)>>,
     SpotACPower |-> <<N32(\h5100, \h0200), N32(\h0046, \h4000), N32(\h0046, \h42FF)>>,
     SpotACVoltage |-> <<N32(\h5100, \h0200), N32(\h0046, \h4800), N32(\h0046, \h55FF)>>,
     SpotGridFrequency |-> <<N32(\h5100, \h0200), N32(\h0046, \h5700), N32(\h0046, \h57FF)>>,
     SpotACTotalPower |-> <<N32(\h5100, \h0200), N32(\h0026, \h3F00), N32(\h0026, \h3FFF)>>,
     TypeLabel |-> <<N32(\h5800, \h0200), N32(\h0082, \h1E00), N32(\h0082, \h20FF)>>,
     SoftwareVersion |-> <<N32(\h5800, \h0200), N32(\h0082, \h3400), N32(\h0082, \h34FF)>>,
     DeviceStatus |-> <<N32(\h5180, \h0200), N32(\h0021, \h4800), N32(\h0021, \h48FF)>>,
     GridRelayStatus |-> <<N32(\h5180, \h0200), N32(\h0041, \h6400), N32(\h0041, \h64FF)>>,
     OperationTime |-> <<N32(\h5400, \h0200), N32(\h0046, \h2E00), N32(\h0046, \h2FFF)>>,
     BatteryChargeStatus |-> <<N32(\h5100, \h0200), N32(\h0029, \h5A00), N32(\h0029, \h5AFF)>>,
     BatteryInfo |-> <<N32(\h5100, \h0200), N32(\h0049, \h1E00), N32(\h0049, \h5DFF)>>,
     InverterTemperature |-> <<N32(\h5200, \h0200), N32(\h0023, \h7700), N32(\h0023, \h77FF)>>,
     MeteringGridMsTotW |-> <<N32(\h5100, \h0200), N32(\h0046, \h3600), N32(\h0046, \h37FF)>>]

\* the parameters of PacketBuilder.build_data_request_packet
DataRequestParams == {"dst_susy_id", "dst_serial", "command", "first", "last"}

\* mutant: the builder takes any keyword argument
AcceptsKeyword_Any(name) == TRUE

\* a call of build_data_request_packet with the keyword argument name binds
\* it to a parameter, or raises TypeError
AcceptsKeyword(name) == name \in DataRequestParams

UnexpectedKeyword ==
    Exc("TypeError", "build_data_request_packet() got an unexpected keyword argument 'ctrl'")

\* a request in progress: the call s, the part of the script not yet
\* delivered, and the data to return (NoneReceived is None)
Request(s, script, data) == [s |-> s, script |-> script, data |-> data]

RECURSIVE request_attempts(_, _, _, _, _)
\* the loop of _request_data from attempt retry on; q is (command, first,
\* last); each wait for a reply uses up one element of the script
request_attempts(s, q, script, retry, ceiling) ==
    LET arrivals == IF script = <<>> THEN <<>> ELSE Head(script)
        rest == IF script = <<>> THEN <<>> ELSE Tail(script)
        sent(s2, received) ==
            IF ~NotData(received)
            THEN Request([s2 EXCEPT !.reply = received], rest, received)
            ELSE request_attempts(s2, q, rest, retry + 1, ceiling)
        built(s1) ==
            IF ~s1.sock
            THEN Request(Raise(s1, SocketNotConnected), script, NoneReceived)
            ELSE The({sent(Sent(s1, s1.buffer), received) :
                      received \in {receive_with_filter(arrivals, s1.ip_address,
                                                        max_attempts)}})
    IN  IF retry >= ceiling THEN Request(s, script, NoneReceived)
        ELSE IF ~AcceptsKeyword("ctrl")
        THEN Request(Raise(s, UnexpectedKeyword), script, NoneReceived)
        ELSE The({built(s1) :
                  s1 \in {The({[s EXCEPT !.packet_id = packet.packet_id,
                                         !.buffer = packet.buffer] :
                               packet \in {build_data_request_packet(s.packet_id,
                                              app_serial, s.inverter.susy_id,
                                              s.inverter.serial, q[1], q[2],
                                              q[3])}})}})

\* SBFspot._request_data(command, first, last, ctrl)
request_data(s, q, script) ==
    IF ~s.connected
    THEN Request(Raise(s, Exc("ConnectionError", "Not connected")), script,
                 NoneReceived)
    ELSE request_attempts(s, q, script, 0, MAX_RETRY)

\* the sub-queries of the readers that only request and decode
Queries(op) ==
    CASE op = "get_spot_data" ->
           <<"SpotACTotalPower", "SpotACPower", "SpotACVoltage",
             "SpotGridFrequency", "SpotDCPower", "SpotDCVoltage">>
      [] op = "get_energy_data" -> <<"EnergyProduction">>
      [] op = "get_device_info" ->
           <<"TypeLabel", "SoftwareVersion", "DeviceStatus", "GridRelayStatus">>
      [] op = "get_temperature" -> <<"InverterTemperature">>
      [] op = "get_battery_data" -> <<"BatteryChargeStatus", "BatteryInfo">>

\* cmd, first, last = COMMANDS[name]; KeyError for a name it does not hold
HasCommand(name) == name \in DOMAIN COMMANDS

\* if data: self._parse_data_response(data)
Decoded(r) ==
    IF NotData(r.data) THEN r
    ELSE LET d == parse_data_response(r.data.data, r.s.inverter)
             s1 == [r.s EXCEPT !.inverter = d.inv]
         IN  IF d.error = "ok" THEN Request(s1, r.script, r.data)
             ELSE Request(Raise(s1, Exc(d.error, "")), r.script, r.data)

RECURSIVE run_queries(_, _, _)
\* one request and decode per name, in order, until one raises
run_queries(s, names, script) ==
    IF names = <<>> THEN Request(s, script, NoneReceived)
    ELSE IF ~HasCommand(Head(names))
    THEN Request(Raise(s, Exc("KeyError", Head(names))), script, NoneReceived)
    ELSE The({The({IF r.s.ret = "raise" THEN r
                   ELSE run_queries(r.s, Tail(names), r.script) :
                   r \in {Decoded(data)}}) :
              data \in {request_data(s, COMMANDS[Head(names)], script)}})

\* get_spot_data, get_energy_data, get_device_info, get_temperature and
\* get_battery_data: return self.inverter
get_data(s, op, script) ==
    The({IF r.s.ret = "raise" THEN r
         ELSE Request([r.s EXCEPT !.ret = "inverter"], r.script, r.data) :
         r \in {run_queries(s, Queries(op), script)}})

\* SBFspot.get_archive_day_data(date); start_ts is the start of the day
get_archive_day_data(s, start_ts, script) ==
    IF ~HasCommand("ArchiveDayData")
    THEN Request(Raise(s, Exc("KeyError", "ArchiveDayData")), script, NoneReceived)
    ELSE The({IF r.s.ret = "raise" THEN r
              ELSE IF NotData(r.data)
              THEN Request([r.s EXCEPT !.ret = "inverter"], r.script, r.data)
              ELSE Request([r.s EXCEPT !.ret = "inverter",
                              !.inverter = parse_archive_response(r.data.data, @)],
                           r.script, r.data) :
              r \in {request_data(s, <<COMMANDS["ArchiveDayData"][1],
                                       NumOf(ToInt(start_ts) - 600),
                                       NumOf(ToInt(start_ts) + 86100)>>, script)}})

RECURSIVE run_readers(_, _, _)
\* the readers of read_all before get_archive_day_data, one call after
\* another until one raises
run_readers(s, ops, script) ==
    IF ops = <<>> THEN Request(s, script, NoneReceived)
    ELSE The({IF r.s.ret = "raise" THEN r
              ELSE run_readers(r.s, Tail(ops), r.script) :
              r \in {get_data(s, Head(ops), script)}})

\* SBFspot.read_all
read_all(s, start_ts, script) ==
    The({IF r.s.ret = "raise" THEN r
         ELSE get_archive_day_data(r.s, start_ts, r.script) :
         r \in {run_readers(s, <<"get_device_info", "get_spot_data",
                                 "get_energy_data", "get_temperature",
                                 "get_battery_data">>, script)}})

----------------------------------------------------------------------------
(* The builder on its own: any sequence of build calls on one PacketBuilder *)

MaxBuilds == 32768
MaxPwLen == 13
MaxFullLen == 3

\* PacketBuilder._generate_session_id: 900000000 + r % 100000000
SessionSerials == {NumOf(900000000), NumOf(999999999)}

\* a device identity as connect() resolves one
DeviceId == [susy_id |-> 378, serial |-> NumOf(2130012345)]
AnyId == [susy_id |-> ANY_SUSYID, serial |-> ANY_SERIAL]

\* int(time.time()) at a login
Times == {NumOf(1700000000)}

\* (command, first, last) of COMMANDS['SpotACTotalPower']
BuilderQueries ==
    {<<N32(\h5100, \h0200), N32(\h0026, \h3F00), N32(\h0026, \h3FFF)>>}

\* the characters of '0000', the default password of SBFspot.__init__
DefaultPassword == <<48, 48, 48, 48>>

\* passwords as sequences of character codes: every string of at most
\* MaxFullLen characters over PwChars, and the strings c d c d ... of every
\* length up to MaxPwLen
PwChars == {0, 48, 120, 255}
Passwords ==
    UNION {[1..n -> PwChars] : n \in 0..MaxFullLen}
    \cup {[i \in 1..n |-> IF i % 2 = 1 THEN c ELSE d] :
            n \in 0..MaxPwLen, c \in PwChars, d \in PwChars}

Before(op, password, user_group) ==
    [op |-> op, packet_id |-> packet_id, app_serial |-> app_serial,
     password |-> password, user_group |-> user_group]

\* PacketBuilder() with the given session serials
NewBuilder(serials) ==
    /\ buffer = <<>>
    /\ packet_id = 1
    /\ app_serial \in serials
    /\ lastCall = [op |-> "none", packet_id |-> 1, app_serial |-> app_serial,
                   password |-> <<>>, user_group |-> 0]
    /\ builds = 0

\* no reply has been handed to a decoder
NoReply == [data |-> <<>>, layout |-> 0, recs |-> <<>>]

DecoderIdle ==
    /\ inverter = DefaultInverter
    /\ din = NoReply
    /\ dres = "idle"

\* no call of the session has been made
NoCall ==
    [op |-> "none", was_connected |-> FALSE, was_logged_in |-> FALSE,
     heard |-> <<>>, sent |-> <<>>, reply |-> NoneReceived, ret |-> "None",
     exc |-> NoExc]

\* discover_inverters is not running; inverters is its list, elapsed the
\* time since its probe was sent, parity that of the datagrams received
NotDiscovering ==
    [listening |-> FALSE, inverters |-> <<>>, elapsed |-> 0, parity |-> 0]

\* SBFspot(ip) just constructed, for an ip of ips
NewSession(ips) ==
    /\ sock = FALSE
    /\ ip_address \in ips
    /\ connected = FALSE
    /\ logged_in = FALSE
    /\ result = NoCall
    /\ calls = 0
    /\ discovery = NotDiscovering

InitBuilder == NewBuilder(SessionSerials) /\ DecoderIdle /\ NewSession({<<>>})

Built(r, before, advancing) ==
    /\ buffer' = r.buffer
    /\ packet_id' = r.packet_id
    /\ app_serial' = app_serial
    /\ lastCall' = before
    /\ builds' = IF advancing THEN builds + 1 ELSE builds
    /\ UNCHANGED <<dvars, svars>>

BuildDiscovery ==
    Built(build_discovery_packet(packet_id), Before("discovery", <<>>, 0), FALSE)

BuildInit ==
    /\ builds < MaxBuilds
    /\ \E d \in {AnyId, DeviceId} :
         Built(build_init_packet(packet_id, app_serial, d.susy_id, d.serial),
               Before("init", <<>>, 0), TRUE)

BuildLogin(pws) ==
    /\ builds < MaxBuilds
    /\ \E pw \in pws, ug \in {UG_USER, UG_INSTALLER}, now \in Times :
         Built(build_login_packet(packet_id, app_serial, DeviceId.susy_id,
                                  DeviceId.serial, pw, ug, now),
               Before("login", pw, ug), TRUE)

BuildLogoff ==
    /\ builds < MaxBuilds
    /\ Built(build_logoff_packet(packet_id, app_serial),
             Before("logoff", <<>>, 0), TRUE)

BuildDataRequest ==
    /\ builds < MaxBuilds
    /\ \E q \in BuilderQueries :
         Built(build_data_request_packet(packet_id, app_serial, DeviceId.susy_id,
                                         DeviceId.serial, q[1], q[2], q[3]),
               Before("data_request", <<>>, 0), TRUE)

NextBuilder ==
    \/ BuildDiscovery
    \/ BuildInit
    \/ BuildLogin({DefaultPassword})
    \/ BuildLogoff
    \/ BuildDataRequest

SpecBuilder == InitBuilder /\ [][NextBuilder]_vars

\* build_login_packet on a fresh builder, over the passwords
NextLogin == builds = 0 /\ BuildLogin(Passwords)

SpecLogin == InitBuilder /\ [][NextLogin]_vars

----------------------------------------------------------------------------
(* The record decoder on its own: one data reply, decoded into a fresh     *)
(* InverterData.  The replies are laid out as a device lays them out.      *)

MaxFreeRecs == 2
MaxRecs == 7

Zeros(n) == [i \in 1..n |-> 0]

\* the 4-byte tag of a record: sub-index, measurement code, value type
Tag(lri, cls, data_type) ==
    <<cls, (lri \div 256) % 256, (lri \div 65536) % 256, data_type>>

\* a frame as the docstring of PacketBuilder lays it out, sent by the device
\* (src) to the client (dst), with its command words and its records
ReplyFrame(src_susy_id, src_serial, dst_serial, error_code, pid, command, first, last, payload) ==
    LET b1 == write_long(build_eth_header, ETH_L2SIGNATURE)
        b2 == write_byte(b1, ((40 + Len(payload)) \div 4) % 256)
        b3 == write_byte(b2, \hA0)
        b4 == write_short(b3, APP_SUSYID)
        b5 == write_long(b4, dst_serial)
        b6 == write_short(b5, 0)
        b7 == write_short(b6, src_susy_id)
        b8 == write_long(b7, src_serial)
        b9 == write_short(b8, 0)
        b10 == write_short(b9, error_code)
        b11 == write_short(b10, 0)
        b12 == write_short(b11, WithHighBit(pid))
        b13 == write_long(b12, command)
        b14 == write_long(b13, first)
        b15 == write_long(b14, last)
    IN  finalize_packet_length(build_packet_trailer(b15 \o payload))

\* value bytes of a record: a plain value, the unsigned and the signed
\* sentinel of the width, and a second plain value
ValueBytes(val, width) ==
    CASE val = "plain" -> <<210, 4>> \o Zeros(width - 2)
      [] val = "nan_u" -> [i \in 1..width |-> 255]
      [] val = "nan_s" -> Zeros(width - 1) \o <<128>>
      [] val = "other" -> <<57, 48, 1>> \o Zeros(width - 3)

\* one record of `layout` bytes: tag, timestamp, then a 64-bit value
\* (layout 16) or the 32-bit value in each value slot
EncodeRecord(layout, rec) ==
    LET v4 == ValueBytes(rec.val, 4)
    IN  rec.tag \o SubSeq(NumOf(rec.ts).mag, 1, 4) \o
        (IF layout = 16 THEN ValueBytes(rec.val, 8)
         ELSE IF layout >= 20 THEN v4 \o v4 \o v4 \o Zeros(layout - 20)
         ELSE v4 \o Zeros(layout - 12))

RECURSIVE EncodeRecords(_, _)
EncodeRecords(layout, recs) ==
    IF recs = <<>> THEN <<>>
    ELSE EncodeRecord(layout, Head(recs)) \o EncodeRecords(layout, Tail(recs))

Layouts == {12, 16, 20, 28, 40}

\* tags of total AC power, total yield, DC power of input 2, and an
\* unassigned measurement code
Tags ==
    {Tag(LriDef.GridMsTotW, 1, 64), Tag(LriDef.MeteringTotWhOut, 1, 0),
     Tag(LriDef.DcMsWatt, 2, 64), Tag(\h999900, 1, 0)}

Vals == {"plain", "nan_u", "nan_s", "other"}

\* first and last record number of a reply: 1, 2 or 4 declared records,
\* and a last number below the first
DeclaredRanges == {<<0, 0>>, <<0, 1>>, <<0, 3>>, <<1, 0>>}

\* every payload of at most MaxFreeRecs records, and the payloads of up to
\* MaxRecs equal records
Payloads ==
    UNION {[1..k -> [tag : Tags, ts : {1700000000}, val : Vals]] :
             k \in 0..MaxFreeRecs}
    \cup {[i \in 1..k |-> r] :
             k \in 0..MaxRecs, r \in [tag : Tags, ts : {0, 1700000000}, val : Vals]}

DataReply(layout, range, recs) ==
    [data |-> ReplyFrame(DeviceId.susy_id, DeviceId.serial, NumOf(900000000), 0, 2,
                         N32(\h5100, \h0200), NumOf(range[1]), NumOf(range[2]),
                         EncodeRecords(layout, recs)),
     layout |-> layout,
     recs |-> recs]

InitDecoder ==
    /\ NewBuilder({NumOf(900000000)})
    /\ inverter = DefaultInverter
    /\ \E layout \in Layouts, range \in DeclaredRanges, recs \in Payloads :
         din = DataReply(layout, range, recs)
    /\ dres = "pending"
    /\ NewSession({<<>>})

\* self._parse_data_response(data)
DecodeReply ==
    /\ dres = "pending"
    /\ LET r == parse_data_response(din.data, inverter)
       IN  /\ inverter' = r.inv
           /\ dres' = r.error
    /\ UNCHANGED <<bvars, bobs, din, svars>>

NextDecoder == DecodeReply

SpecDecoder == InitDecoder /\ [][NextDecoder]_vars

----------------------------------------------------------------------------
(* Replies without records: the header of a data reply with its trailer,  *)
(* and every non-empty beginning of it, as _request_data may return them  *)

RecordlessReplies ==
    {[data |-> SubSeq(DataReply(28, range, <<>>).data, 1, n), layout |-> 28,
      recs |-> <<>>] :
        range \in DeclaredRanges, n \in 1..Len(DataReply(28, <<0, 0>>, <<>>).data)}

InitRecordless ==
    /\ NewBuilder({NumOf(900000000)})
    /\ inverter = DefaultInverter
    /\ din \in RecordlessReplies
    /\ dres = "pending"
    /\ NewSession({<<>>})

SpecRecordless == InitRecordless /\ [][NextDecoder]_vars

----------------------------------------------------------------------------
(* The record loop on its own: _parse_records on a reply of any length    *)
(* from 54 bytes on, with any record size from 12 on                       *)

MaxStride == 29
MaxPayload == 60

\* tags of total AC power, the device name, the software version, the
\* device class as a status, the device status as a plain value, and an
\* unassigned measurement code
LoopTags ==
    {Tag(LriDef.GridMsTotW, 1, 64), Tag(LriDef.NameplateLocation, 1, 16),
     Tag(LriDef.NameplatePkgRev, 1, 0), Tag(LriDef.NameplateMainModel, 1, DT_STATUS),
     Tag(LriDef.OperationHealth, 1, 0), Tag(\h999900, 1, 0)}

\* n bytes that repeat the four bytes of a tag
Repeated(tag, n) == [i \in 1..n |-> tag[((i - 1) % 4) + 1]]

LoopReply(tag, n) ==
    ReplyFrame(DeviceId.susy_id, DeviceId.serial, NumOf(900000000), 0, 2,
               N32(\h5100, \h0200), NumOf(0), NumOf(0), Repeated(tag, n))

\* replies with 0 to MaxPayload bytes of payload, and the reply without
\* payload cut after 54 to 57 bytes
LoopReplies ==
    {LoopReply(tag, n) : tag \in LoopTags, n \in 0..MaxPayload}
    \cup {SubSeq(LoopReply(<<0, 0, 0, 0>>, 0), 1, n) : n \in 54..57}

InitLoop ==
    /\ NewBuilder({NumOf(900000000)})
    /\ inverter = DefaultInverter
    /\ \E data \in LoopReplies, record_size \in 12..MaxStride :
         din = [data |-> data, record_size |-> record_size, turns |-> <<>>]
    /\ dres = "pending"
    /\ NewSession({<<>>})

\* self._parse_records(data, payload_start, try_size)
ParseRecords ==
    /\ dres = "pending"
    /\ LET r == parse_records(din.data, 54, din.record_size, inverter)
       IN  /\ inverter' = r.inv
           /\ dres' = IF r.raised THEN "struct.error" ELSE "ok"
    /\ din' = [din EXCEPT !.turns = records_read(din.data, 54, din.record_size)]
    /\ UNCHANGED <<bvars, bobs, svars>>

NextLoop == ParseRecords

SpecLoop == InitLoop /\ [][NextLoop]_vars

----------------------------------------------------------------------------
(* The field mapper on its own: one record of the code table applied to a  *)
(* fresh InverterData and to one that earlier reads have filled            *)

\* an InverterData after reads of every kind: no field has the value a
\* record of MappedRecords gives it
FilledInverter ==
    [ip_address |-> <<192, 168, 1, 100>>, susy_id |-> DeviceId.susy_id,
     serial |-> DeviceId.serial,
     device_name |-> <<83, 66>>, device_type |-> <<"Type_", NumOf(9074)>>,
     device_class |-> <<"SolarInverter">>, device_class_id |-> NumOf(8001),
     sw_version |-> <<"3.10.18.R">>,
     device_status |-> NumOf(307), grid_relay_status |-> NumOf(51),
     total_pac |-> NumOf(7), pac1 |-> NumOf(7), pac2 |-> NumOf(7),
     pac3 |-> NumOf(7), uac1 |-> NumOf(7), uac2 |-> NumOf(7),
     uac3 |-> NumOf(7), iac1 |-> NumOf(7), iac2 |-> NumOf(7),
     iac3 |-> NumOf(7), grid_freq |-> NumOf(7),
     mpp |-> [c \in {1, 2} |-> [pdc |-> NumOf(7), udc |-> NumOf(7),
                                idc |-> NumOf(7)]],
     e_today |-> NumOf(7), e_total |-> NumOf(7),
     operation_time |-> NumOf(7), feed_in_time |-> NumOf(7),
     temperature |-> NumOf(7), bat_charge_status |-> NumOf(7),
     bat_voltage |-> NumOf(7), bat_current |-> NumOf(7),
     bat_temperature |-> NumOf(7), has_battery |-> FALSE,
     metering_grid_w_out |-> NumOf(7), metering_grid_w_in |-> NumOf(7),
     day_data |-> <<>>, has_day_data |-> FALSE,
     inverter_datetime |-> <<NumOf(1600000000)>>,
     wakeup_time |-> <<NumOf(1600000000)>>,
     sleep_time |-> <<NumOf(1600000000)>>]

\* the records handed to the mapper: every code of the table, for DC input
\* 1 and 2, of value type unsigned and status, with and without a
\* timestamp, at a short and a long stride
MappedRecords ==
    [lri : LriValues, cls : {1, 2}, data_type : {0, DT_STATUS},
     ts : {0, 1700000000}, record_size : {12, 28}]

\* the bytes of the record in a payload that ends with it
RecordBytes(rec) ==
    EncodeRecord(rec.record_size,
                 [tag |-> Tag(rec.lri, rec.cls, rec.data_type), ts |-> rec.ts,
                  val |-> "plain"]) \o Zeros(4)

InitMapper ==
    /\ NewBuilder({NumOf(900000000)})
    /\ inverter \in {DefaultInverter, FilledInverter}
    /\ din = NoReply
    /\ dres = "idle"
    /\ NewSession({<<>>})

\* self._map_lri_value(lri, cls, data_type, value, timestamp, data, pos,
\* record_size) as _parse_records calls it for the record at pos
MapRecord ==
    /\ dres = "idle"
    /\ \E rec \in MappedRecords :
         /\ inverter' = map_lri_value(inverter, rec.lri, rec.cls, rec.data_type,
                                      RecordValue(RecordBytes(rec), 0,
                                                  rec.record_size),
                                      NumOf(rec.ts), RecordBytes(rec), 0,
                                      rec.record_size)
         /\ din' = [rec |-> rec, before |-> inverter]
    /\ dres' = "mapped"
    /\ UNCHANGED <<bvars, bobs, svars>>

NextMapper == MapRecord

SpecMapper == InitMapper /\ [][NextMapper]_vars

----------------------------------------------------------------------------
(* The archive decoder on its own: one archive reply, decoded into a fresh *)
(* InverterData                                                            *)

MaxArchiveRecs == 3

\* timestamps (s) and cumulative energies (Wh) of archive records; a record
\* with nan set carries the 64-bit sentinel instead of an energy
ArchiveTimes == {0, 1800, 3600, 5400, 7200}
ArchiveEnergies == {1000, 1500}
ArchiveRecords ==
    [ts : ArchiveTimes, e : ArchiveEnergies, nan : {FALSE}]
    \cup [ts : ArchiveTimes, e : {0}, nan : {TRUE}]

EncodeArchiveRecord(rec) ==
    SubSeq(NumOf(rec.ts).mag, 1, 4)
    \o (IF rec.nan THEN NAN_U64.mag ELSE NumOf(rec.e).mag)

RECURSIVE EncodeArchiveRecords(_)
EncodeArchiveRecords(recs) ==
    IF recs = <<>> THEN <<>>
    ELSE EncodeArchiveRecord(Head(recs)) \o EncodeArchiveRecords(Tail(recs))

\* the reply to an ArchiveDayData request (command 0x70000200 in SBFspot)
ArchiveReply(recs) ==
    [data |-> ReplyFrame(DeviceId.susy_id, DeviceId.serial, NumOf(900000000), 0, 2,
                         N32(\h7000, \h0200), NumOf(0), NumOf(0),
                         EncodeArchiveRecords(recs)),
     layout |-> 12,
     recs |-> recs]

InitArchive ==
    /\ NewBuilder({NumOf(900000000)})
    /\ inverter = DefaultInverter
    /\ \E recs \in UNION {[1..k -> ArchiveRecords] : k \in 0..MaxArchiveRecs} :
         din = ArchiveReply(recs)
    /\ dres = "pending"
    /\ NewSession({<<>>})

\* self._parse_archive_response(data)
DecodeArchive ==
    /\ dres = "pending"
    /\ inverter' = parse_archive_response(din.data, inverter)
    /\ dres' = "ok"
    /\ UNCHANGED <<bvars, bobs, din, svars>>

NextArchive == DecodeArchive

SpecArchive == InitArchive /\ [][NextArchive]_vars

\* archive reads one after another on the same InverterData: each reply
\* carries up to MaxReadRecs records
MaxReadRecs == 1

ReadReplies ==
    {ArchiveReply(recs) :
        recs \in UNION {[1..k -> ArchiveRecords] : k \in 0..MaxReadRecs}}

InitArchiveReads ==
    /\ NewBuilder({NumOf(900000000)})
    /\ inverter = DefaultInverter
    /\ din \in ReadReplies
    /\ dres = "pending"
    /\ NewSession({<<>>})

\* the next get_archive_day_data() has its reply
NextArchiveReply ==
    /\ dres = "ok"
    /\ din' \in ReadReplies
    /\ dres' = "pending"
    /\ UNCHANGED <<bvars, bobs, inverter, svars>>

NextArchiveReads == DecodeArchive \/ NextArchiveReply

SpecArchiveReads == InitArchiveReads /\ [][NextArchiveReads]_vars

----------------------------------------------------------------------------
(* The session: an SBFspot object, its calls one after another, and what   *)
(* the network delivers during each call                                   *)

MaxCalls == 4

\* dotted quads as their four numbers
DeviceIp == <<192, 168, 1, 100>>
OtherIp == <<192, 168, 1, 7>>

\* error codes of a reply to login
LoginCodes == {0, 1, \h0100, \h0200, \hFFFF}

\* the device's reply to the request about to be built
DeviceReply(error_code, command) ==
    ReplyFrame(DeviceId.susy_id, DeviceId.serial, app_serial, error_code,
               next_packet_id(packet_id), command, NumOf(0), NumOf(0), <<>>)

\* datagrams that receive_with_filter accepts: a reply to the command with
\* one of the error codes, the first 41 and the first 43 bytes of one, and
\* an empty datagram
Accepted(codes, command) ==
    {[data |-> DeviceReply(e, command), sender |-> DeviceIp] : e \in codes}
    \cup {[data |-> SubSeq(DeviceReply(0, command), 1, 41), sender |-> DeviceIp],
          [data |-> SubSeq(DeviceReply(0, command), 1, 43), sender |-> DeviceIp],
          [data |-> <<>>, sender |-> DeviceIp]}

\* datagrams that receive_with_filter skips: the sizes of energy meter and
\* home manager broadcasts, and a reply from another device
Stranger(command) == [data |-> DeviceReply(0, command), sender |-> OtherIp]
Skipped(command) ==
    {[data |-> Zeros(600), sender |-> DeviceIp],
     [data |-> Zeros(608), sender |-> OtherIp],
     Stranger(command)}

\* what the socket delivers during a call: nothing, a datagram, a skipped
\* datagram and then nothing or a datagram, or one datagram after
\* max_attempts - 1 or max_attempts skipped ones
Arrivals(codes, command) ==
    LET acc == Accepted(codes, command)
        tails == {<<>>} \cup {<<a>> : a \in acc}
    IN  tails
        \cup {<<j>> \o t : j \in Skipped(command), t \in tails}
        \cup {[i \in 1..n |-> Stranger(command)] \o <<a>> :
                n \in {max_attempts - 1, max_attempts}, a \in acc}

InitSession ==
    /\ NewBuilder({NumOf(900000000)})
    /\ DecoderIdle
    /\ NewSession({<<>>, DeviceIp})

\* the call op of the session ends as o; script is what the socket delivers
\* during the call, one sequence of datagrams per wait for a reply
CalledWithout(op, o, script) ==
    \E r \in {o} :
        /\ calls < MaxCalls
        /\ calls' = calls + 1
        /\ sock' = r.sock
        /\ ip_address' = r.ip_address
        /\ connected' = r.connected
        /\ logged_in' = r.logged_in
        /\ packet_id' = r.packet_id
        /\ buffer' = r.buffer
        /\ inverter' = r.inverter
        /\ result' = [op |-> op, was_connected |-> connected,
                      was_logged_in |-> logged_in, heard |-> script,
                      sent |-> r.sent, reply |-> r.reply, ret |-> r.ret,
                      exc |-> r.exc]
        /\ UNCHANGED <<app_serial, bobs, din, dres>>

\* the same, for a call that leaves the loop of discovery alone
CalledWith(op, o, script) ==
    CalledWithout(op, o, script) /\ UNCHANGED discovery

\* a call during which the session waits for nothing
Called(op, o) == CalledWith(op, o, <<>>)

\* the command word of the reply to init and to login
InitCommand == N32(0, \h0200)
LoginCommand == N32(\hFFFD, \h040D)

ConnectOn(created, deliveries) ==
    \E target \in {<<>>, DeviceIp}, socket_created \in created,
       arrivals \in deliveries :
        CalledWith("connect", connect(Entry, target, socket_created, arrivals),
                   <<arrivals>>)

LoginOn(user_groups, deliveries) ==
    \E user_group \in user_groups, now \in Times, arrivals \in deliveries :
        CalledWith("login",
                   login(Entry, DefaultPassword, user_group, now, arrivals),
                   <<arrivals>>)

Connect == ConnectOn(BOOLEAN, Arrivals({0}, InitCommand))

Login == LoginOn({UG_USER, UG_INSTALLER}, Arrivals(LoginCodes, LoginCommand))

Logout == Called("logout", logout(Entry))

Close == Called("close", close(Entry))

\* the device's reply to a data request: error code, the words of
\* SpotACTotalPower, and one 28-byte record of total AC power = 1234 W
AnswerFrame(error_code) ==
    LET q == COMMANDS.SpotACTotalPower
    IN  ReplyFrame(DeviceId.susy_id, DeviceId.serial, app_serial, error_code,
                   next_packet_id(packet_id), q[1], q[2], q[3],
                   EncodeRecord(28, [tag |-> Tag(LriDef.GridMsTotW, 1, 64),
                                     ts |-> 1700000000, val |-> "plain"]))

Answer == [data |-> AnswerFrame(0), sender |-> DeviceIp]

\* the error code of a rejected data request
RejectedCode == \h0015

\* the sub-queries of read_all before those of get_battery_data
BeforeBattery ==
    Len(Queries("get_device_info")) + Len(Queries("get_spot_data"))
    + Len(Queries("get_energy_data")) + Len(Queries("get_temperature"))

\* what the socket delivers during a read, one element per wait: no
\* datagram at all; the answer at the first, second, third or fourth wait;
\* a rejection; the answer behind skipped datagrams, fewer than and as many
\* as max_attempts; an answer at every wait; and an answer at every wait
\* but those of the battery queries
Scripts ==
    LET silent(n) == [i \in 1..n |-> <<>>]
        answered(n) == [i \in 1..n |-> <<Answer>>]
        stranger == [data |-> AnswerFrame(0), sender |-> OtherIp]
        meter == [data |-> Zeros(600), sender |-> OtherIp]
    IN  {silent(n) \o <<<<Answer>>>> : n \in 0..MAX_RETRY}
        \cup {<<>>,
              <<<<[data |-> AnswerFrame(RejectedCode), sender |-> DeviceIp]>>>>,
              <<<<meter, stranger, Answer>>>>,
              <<[i \in 1..max_attempts |-> stranger] \o <<Answer>>>>,
              answered(BeforeBattery + 3),
              answered(BeforeBattery)
                \o silent(MAX_RETRY * Len(Queries("get_battery_data")))
                \o answered(1)}

\* what _request_data returns: the data, or None
RequestReturn(r) ==
    IF r.s.ret = "raise" THEN r.s
    ELSE [r.s EXCEPT !.ret = IF NotData(r.data) THEN "None" ELSE "data"]

RequestData ==
    \E script \in Scripts :
        CalledWith("request_data",
                   RequestReturn(request_data(Entry, COMMANDS.SpotACTotalPower,
                                              script)),
                   script)

GetData ==
    \E op \in {"get_spot_data", "get_energy_data", "get_device_info",
                "get_temperature", "get_battery_data"}, script \in Scripts :
        CalledWith(op, get_data(Entry, op, script).s, script)

GetArchiveDayData ==
    \E start_ts \in Times, script \in Scripts :
        CalledWith("get_archive_day_data",
                   get_archive_day_data(Entry, start_ts, script).s, script)

ReadAll ==
    \E start_ts \in Times, script \in Scripts :
        CalledWith("read_all", read_all(Entry, start_ts, script).s, script)

\* the reply of a device of another identity that has taken the address
\* of the first
ReplacedId == [susy_id |-> 359, serial |-> NumOf(1901234567)]
Replaced(command) ==
    [data |-> ReplyFrame(ReplacedId.susy_id, ReplacedId.serial, app_serial, 0,
                         next_packet_id(packet_id), command, NumOf(0), NumOf(0),
                         <<>>),
     sender |-> DeviceIp]

\* during connect and login of a reading session the socket delivers
\* nothing, the reply, the reply of a replaced device, the reply behind
\* skipped datagrams, or only a skipped datagram
Deliveries(command) ==
    LET reply == [data |-> DeviceReply(0, command), sender |-> DeviceIp]
    IN  {<<>>, <<reply>>, <<Stranger(command)>>, <<Replaced(command)>>,
         <<[data |-> Zeros(608), sender |-> DeviceIp], Stranger(command), reply>>}

ConnectReading == ConnectOn({TRUE}, Deliveries(InitCommand))

\* the device's reply to the frame sent before the one about to be built,
\* arriving late
Belated(command) ==
    [data |-> ReplyFrame(DeviceId.susy_id, DeviceId.serial, app_serial, 0,
                         packet_id, command, NumOf(0), NumOf(0), <<>>),
     sender |-> DeviceIp]

LoginReading ==
    LoginOn({UG_USER}, Deliveries(LoginCommand) \cup {<<Belated(LoginCommand)>>})

NextSession == Connect \/ Login \/ Logout \/ Close

\* the session with its data requests and reads
NextReads ==
    \/ ConnectReading
    \/ LoginReading
    \/ Logout
    \/ Close
    \/ RequestData
    \/ GetData
    \/ GetArchiveDayData
    \/ ReadAll

SpecReads == InitSession /\ [][NextReads]_vars

SpecSession == InitSession /\ [][NextSession]_vars

----------------------------------------------------------------------------
(* The scoped session: with SBFspot(ip) as spot: ...                       *)

\* SBFspot.__enter__: eth.connect(), whose result is not looked at, then
\* connect(self.ip_address) if the address is set
enter(s, socket_created, arrivals) ==
    The({IF s1.ip_address = <<>> THEN [s1 EXCEPT !.ret = "self"]
         ELSE The({IF s2.ret = "raise" THEN s2 ELSE [s2 EXCEPT !.ret = "self"] :
                   s2 \in {connect(s1, s1.ip_address, socket_created, arrivals)}}) :
         s1 \in {[s EXCEPT !.sock = @ \/ socket_created]}})

\* SBFspot.__exit__: close(); send_fails is whether sock.sendto of the
\* logoff frame raises OSError, which nothing between sendto and __exit__
\* catches
exit(s, send_fails) ==
    IF s.logged_in /\ s.sock /\ send_fails
    THEN The({Raise([s EXCEPT !.packet_id = logoff.packet_id,
                              !.buffer = logoff.buffer],
                    Exc("OSError", "sendto")) :
              logoff \in {build_logoff_packet(s.packet_id, app_serial)}})
    ELSE close(s)

\* the with statement has been left: __exit__ has run, or __enter__ raised
\* and __exit__ is not called
Left ==
    \/ result.op = "__exit__"
    \/ result.op = "__enter__" /\ result.ret = "raise"

\* the block is running and no exception is on its way out of it
InScope == calls > 0 /\ ~Left /\ result.ret # "raise"

Enter ==
    /\ calls = 0
    /\ \E socket_created \in BOOLEAN, arrivals \in Arrivals({0}, InitCommand) :
         CalledWith("__enter__", enter(Entry, socket_created, arrivals),
                    <<arrivals>>)

\* a method of the session called in the block
InBlock ==
    /\ InScope
    /\ \/ ConnectReading
       \/ LoginReading
       \/ Logout
       \/ RequestData

\* the block ends, normally or by the exception of its latest call
Exit ==
    /\ calls > 0
    /\ ~Left
    /\ \E send_fails \in BOOLEAN : Called("__exit__", exit(Entry, send_fails))

NextScope == Enter \/ InBlock \/ Exit

SpecScope == InitSession /\ [][NextScope]_vars

----------------------------------------------------------------------------
(* Discovery: discover() sends the probe to the multicast group and      *)
(* listens; each turn of the loop of discover_inverters is one step.      *)
(* Time is counted in ticks.  What recvfrom returns as the sender is the  *)
(* address pair <<host, port>>.                                           *)

MULTICAST_ADDRESS == <<239, 12, 255, 254>>
DEFAULT_PORT == 9522
LocalIp == <<192, 168, 1, 50>>

\* discover(timeout): the timeout of each recvfrom, in ticks
discover_timeout == 3
MaxElapsed == 4

\* data[:3] == b'SMA'
HasSignature(data) == Len(data) >= 3 /\ SubSeq(data, 1, 3) = <<83, 77, 65>>

\* the body of the loop of discover_inverters for one datagram: the list
\* after it.  An entry is the address read from bytes 38..41 of a datagram
\* of 42 bytes or more, or the sender of a shorter one
heard_by_discover(inverters, data, sender, local_ip) ==
    IF ~HasSignature(data) THEN inverters
    ELSE IF Len(data) >= 42
    THEN IF \A i \in DOMAIN inverters : inverters[i] # SubSeq(data, 39, 42)
         THEN Append(inverters, SubSeq(data, 39, 42)) ELSE inverters
    ELSE IF (\A i \in DOMAIN inverters : inverters[i] # sender)
            /\ sender # local_ip
         THEN Append(inverters, sender) ELSE inverters

\* SBFspot.discover up to the loop: eth.connect() if there is no socket,
\* the probe built, and sent unless there is still no socket
discover(s, socket_created) ==
    The({IF ~s1.sock THEN Raise(s1, SocketNotConnected)
         ELSE [s1 EXCEPT !.sent = <<[data |-> s1.buffer,
                                     to |-> MULTICAST_ADDRESS]>>,
                         !.ret = "listening"] :
         s1 \in {The({[s EXCEPT !.sock = @ \/ socket_created,
                                !.packet_id = probe.packet_id,
                                !.buffer = probe.buffer] :
                      probe \in {build_discovery_packet(s.packet_id)}})}})

\* a response of the device at ip, a short signed datagram, and the
\* datagram of an energy meter
Response(ip) == <<83, 77, 65, 0>> \o Zeros(34) \o ip \o Zeros(20)
ShortSigned == <<83, 77, 65, 0>> \o Zeros(16)
DiscoveryDatagrams ==
    {[data |-> Response(DeviceIp), sender |-> <<DeviceIp, DEFAULT_PORT>>],
     [data |-> Response(OtherIp), sender |-> <<OtherIp, DEFAULT_PORT>>],
     [data |-> ShortSigned, sender |-> <<DeviceIp, DEFAULT_PORT>>],
     [data |-> ShortSigned, sender |-> <<LocalIp, DEFAULT_PORT>>],
     [data |-> Zeros(600), sender |-> <<OtherIp, DEFAULT_PORT>>]}

Later(elapsed, ticks) ==
    IF elapsed + ticks > MaxElapsed THEN MaxElapsed ELSE elapsed + ticks

DiscoverStart ==
    /\ ~discovery.listening
    /\ \E socket_created \in BOOLEAN :
         /\ CalledWithout("discover", discover(Entry, socket_created), <<>>)
         /\ discovery' = [NotDiscovering EXCEPT
                            !.listening = sock \/ socket_created]

\* recvfrom returns a datagram, less than the timeout after the previous
\* one
DiscoverReceive ==
    /\ discovery.listening
    /\ \E d \in DiscoveryDatagrams, gap \in 1..(discover_timeout - 1) :
         discovery' = [discovery EXCEPT
                          !.inverters = heard_by_discover(@, d.data, d.sender,
                                                          LocalIp),
                          !.elapsed = Later(@, gap),
                          !.parity = 1 - @]
    /\ UNCHANGED <<bvars, bobs, dvars, sock, ip_address, connected, logged_in,
                   result, calls>>

\* recvfrom raises socket.timeout: the loop ends and the list is returned
DiscoverTimeout ==
    /\ discovery.listening
    /\ discovery' = [discovery EXCEPT !.listening = FALSE,
                                      !.elapsed = Later(@, discover_timeout)]
    /\ result' = [result EXCEPT !.ret = "list"]
    /\ UNCHANGED <<bvars, bobs, dvars, sock, ip_address, connected, logged_in,
                   calls>>

\* calls made while discover() is not running, answered or not
OtherCall ==
    /\ ~discovery.listening
    /\ \/ ConnectOn({TRUE}, {<<>>, <<Replaced(InitCommand)>>})
       \/ LoginOn({UG_USER}, {<<>>, <<Replaced(LoginCommand)>>})
       \/ Close

NextDiscover == DiscoverStart \/ DiscoverReceive \/ DiscoverTimeout \/ OtherCall

SpecDiscover == InitSession /\ [][NextDiscover]_vars

\* the session keeps running: a step is taken as long as one is possible
SpecDiscoverLive == SpecDiscover /\ WF_vars(NextDiscover)

\* logout and a read that nothing answers, made while discover() is not
\* running
QuietCall ==
    /\ ~discovery.listening
    /\ \/ Logout
       \/ \E op \in {"get_spot_data", "get_energy_data"} :
            CalledWith(op, get_data(Entry, op, <<>>).s, <<>>)

\* every call of a session, in any order
NextLifecycle == NextDiscover \/ QuietCall

SpecLifecycle == InitSession /\ [][NextLifecycle]_vars

----------------------------------------------------------------------------
(* Claims about the frame builder *)

\* the 16-bit big-endian value at bytes 12..13 of a frame
LengthField(frame) == frame[13] * 256 + frame[14]

AdvancingOps == {"init", "login", "logoff", "data_request"}

C2_PacketIndex ==
    /\ packet_id \in 1..32767
    /\ packet_id # 0
    /\ (lastCall.op \in AdvancingOps /\ lastCall.packet_id = 32767) => packet_id = 1
    /\ packet_id = (builds % 32767) + 1
    /\ builds = 32767 => packet_id = 1

C2_Witness ==
    /\ builds = 32767
    /\ lastCall.op \in AdvancingOps
    /\ lastCall.packet_id = 32767
    /\ packet_id = 1

\* one step of the packet index
OneStep(p) == IF p = 32767 THEN 1 ELSE p + 1

\* C3 (as stated): init, login and data_request advance the packet index by one
\* step, logoff and discovery leave it unchanged, and the session serial is
\* unchanged.
C3_LogoffKeepsIndex ==
    /\ lastCall.op \in {"init", "login", "data_request"} =>
          packet_id = OneStep(lastCall.packet_id)
    /\ lastCall.op \in {"logoff", "discovery"} => packet_id = lastCall.packet_id
    /\ app_serial = lastCall.app_serial

\* C3 (amended): init, login, logoff and data_request each advance the packet
\* index by exactly one step, discovery leaves it unchanged, and no build
\* changes the session serial.
C3_IndexEffect ==
    /\ lastCall.op \in AdvancingOps => packet_id = OneStep(lastCall.packet_id)
    /\ lastCall.op = "discovery" => packet_id = lastCall.packet_id
    /\ app_serial = lastCall.app_serial

C3_Witness ==
    /\ lastCall.op = "logoff"
    /\ lastCall.packet_id = 2
    /\ packet_id = 3

\* the 12-byte password field of a login frame (bytes 62..73)
PasswordField(frame) == SubSeq(frame, 63, 74)

Offset(user_group) == IF user_group = UG_USER THEN 136 ELSE 187

\* device-side decoding of the first n bytes of a password field
Decode(field, n, off) == [i \in 1..n |-> (field[i] - off + 256) % 256]

Min(a, b) == IF a < b THEN a ELSE b

\* C4: in a login frame, byte i of the password field is (character i + offset)
\* mod 256 for i below the password's length and the offset elsewhere;
\* subtracting the offset mod 256 gives back the password (its first 12
\* characters when it is longer), and the frame is built for every password.
C4_PasswordRoundTrip ==
    lastCall.op = "login" =>
        LET pw == lastCall.password
            off == Offset(lastCall.user_group)
            fld == PasswordField(buffer)
            n == Min(Len(pw), 12)
        IN  /\ Len(buffer) = 78
            /\ \A i \in 1..12 :
                 fld[i] = IF i <= Len(pw) THEN (pw[i] + off) % 256 ELSE off
            /\ Decode(fld, n, off) = SubSeq(pw, 1, n)

C4_Witness ==
    /\ lastCall.op = "login"
    /\ Len(lastCall.password) = 13
    /\ lastCall.user_group = UG_INSTALLER
    /\ lastCall.password[1] = 255
    /\ PasswordField(buffer)[1] = 186

----------------------------------------------------------------------------
(* Claims about the record decoder *)

\* the reply held one record and was decoded at the stride it is laid out in
SingleRecordDecoded ==
    /\ dres = "ok"
    /\ Len(din.recs) = 1
    /\ CandidateSize(din.data) = din.layout

\* the InverterData after mapping the value 0 for the only record of the reply
ZeroMapped ==
    LET tag == din.recs[1].tag
    IN  map_lri_value(DefaultInverter, 256 * tag[2] + 65536 * tag[3], tag[1],
                      tag[4], NumOf(0), NumOf(din.recs[1].ts), din.data, 54,
                      din.layout)

\* C5: when the value bytes of a recognized record hold the unsigned or the
\* signed sentinel of their width (0xFFFFFFFF, 0x80000000, or the 64-bit
\* analogues at stride 16), the value mapped into the InverterData is 0, at
\* every record stride.
C5_SentinelsNormalized ==
    (/\ SingleRecordDecoded
     /\ din.recs[1].val \in {"nan_u", "nan_s"}
     /\ MeasurementCode(get_long(din.data, 54)) \in LriValues)
    => inverter = ZeroMapped

\* some record position of the payload holds a recognized tag at this stride
RECURSIVE RecognizedAt(_, _, _)
RecognizedAt(data, pos, size) ==
    /\ pos + size <= Len(data) - 4
    /\ \/ MeasurementCode(get_long(data, pos)) \in LriValues
       \/ RecognizedAt(data, pos + size, size)

\* C6: a payload laid out at stride 16 whose computed candidate stride is 28
\* is decoded as it is at stride 16 (every record's value reaches the
\* InverterData); and when no candidate stride finds a recognized tag, no
\* record is applied and nothing is raised.
C6_StrideFallback ==
    dres # "pending" =>
        /\ (/\ din.layout = 16
            /\ Len(din.recs) > 0
            /\ CandidateSize(din.data) = 28)
           => /\ dres = "ok"
              /\ inverter = parse_records(din.data, 54, 16, DefaultInverter).inv
        /\ (\A size \in {CandidateSize(din.data), 28, 16, 40, 12} :
                ~RecognizedAt(din.data, 54, size))
           => /\ dres = "ok"
              /\ inverter = DefaultInverter

----------------------------------------------------------------------------
(* Claims about the archive decoder *)

\* the float w equals the integer n
WattIs(w, n) == w[1] = n * w[2]

\* C7 (as stated): the payload (t=0, 1000 Wh), (t=3600, 1500 Wh) produces two
\* samples, the first with derived power 0 and the second with 500 W.
C7_ExampleFromZero ==
    (/\ dres = "ok"
     /\ din.recs = <<[ts |-> 0, e |-> 1000, nan |-> FALSE],
                   [ts |-> 3600, e |-> 1500, nan |-> FALSE]>>)
    => /\ Len(inverter.day_data) = 2
       /\ WattIs(inverter.day_data[1].watt, 0)
       /\ WattIs(inverter.day_data[2].watt, 500)

\* C7 (amended): a payload holding (t=T, 1000 Wh) then (t=T+3600, 1500 Wh)
\* with T > 0 produces two samples, the first with derived power 0 and the
\* second with 500 W; with T = 0 the first record is skipped and the only
\* sample, (3600, 1500 Wh), has derived power 0.
C7_PowerDerivation ==
    (/\ dres = "ok"
     /\ Len(din.recs) = 2
     /\ din.recs[1].e = 1000
     /\ din.recs[2].e = 1500
     /\ din.recs[2].ts = din.recs[1].ts + 3600)
    => LET dd == inverter.day_data
       IN  IF din.recs[1].ts > 0
           THEN /\ Len(dd) = 2
                /\ dd[1].total_wh = NumOf(1000)
                /\ WattIs(dd[1].watt, 0)
                /\ dd[2].total_wh = NumOf(1500)
                /\ WattIs(dd[2].watt, 500)
           ELSE /\ Len(dd) = 1
                /\ dd[1].datetime = <<NumOf(3600)>>
                /\ dd[1].total_wh = NumOf(1500)
                /\ WattIs(dd[1].watt, 0)

C7_Witness ==
    /\ dres = "ok"
    /\ din.recs = <<[ts |-> 3600, e |-> 1000, nan |-> FALSE],
                   [ts |-> 7200, e |-> 1500, nan |-> FALSE]>>
    /\ Len(inverter.day_data) = 2
    /\ inverter.day_data[2].watt = <<1800000, 3600>>

----------------------------------------------------------------------------
(* Claims about the session *)

\* the latest call was a login in an Identified session
LoginIdentified == result.op = "login" /\ result.was_connected

\* the call accepted a reply that has an error code
HasErrorCode == ~result.reply.none /\ CanParseHeader(result.reply.data)
ReplyCode == parse_packet_header(result.reply.data).error_code

\* the number a sequence of hexadecimal digits stands for
RECURSIVE FromHex(_)
FromHex(digits) ==
    IF digits = <<>> THEN 0
    ELSE 16 * FromHex(SubSeq(digits, 1, Len(digits) - 1)) + digits[Len(digits)]

\* C8: in an Identified session a login reply with error code 0 makes the
\* session Authenticated and login returns True; a login reply with error
\* code 0x0100 raises AuthenticationError and leaves the logged-in flag as
\* it was before the call.
C8_LoginOutcome ==
    (LoginIdentified /\ HasErrorCode)
    => /\ ReplyCode = 0
          => connected /\ logged_in /\ result.ret = "True" /\ result.exc = NoExc
       /\ ReplyCode = \h0100
          => /\ result.ret = "raise"
             /\ result.exc.class = "AuthenticationError"
             /\ logged_in = result.was_logged_in

C8_Witness ==
    /\ LoginIdentified
    /\ HasErrorCode
    /\ ReplyCode = 0
    /\ ~result.was_logged_in
    /\ logged_in
    /\ result.ret = "True"

C10_NoReplyIsConnectivity ==
    (LoginIdentified /\ result.reply.none)
    => /\ result.ret = "raise"
       /\ IsA(result.exc.class, "ConnectionError")
       /\ ~IsA(result.exc.class, "AuthenticationError")
       /\ logged_in = result.was_logged_in

\* the fields of the session and of its builder
Session == <<buffer, packet_id, app_serial, inverter, sock, ip_address, connected, logged_in>>

\* C11: login on a session that is not Identified (connect not completed,
\* or closed) fails with an error, sends no frame and leaves the session
\* state unchanged.
C11_LoginRequiresIdentified ==
    [][(calls' = calls + 1 /\ result'.op = "login" /\ ~connected)
       => /\ result'.ret = "raise"
          /\ IsA(result'.exc.class, "SBFspotError")
          /\ result'.sent = <<>>
          /\ UNCHANGED Session]_vars

C11_Witness ==
    /\ result.op = "login"
    /\ ~result.was_connected
    /\ result.heard # <<<<>>>>
    /\ result.ret = "raise"
    /\ result.exc = Exc("ConnectionError", "Not connected. Call connect() first.")
    /\ packet_id > 1

----------------------------------------------------------------------------
(* Claims about data requests and reads *)

HighLevelReads ==
    {"get_spot_data", "get_energy_data", "get_device_info", "get_temperature",
     "get_battery_data", "get_archive_day_data", "read_all"}
DataRequests == HighLevelReads \cup {"request_data"}

\* the latest call was made in an Authenticated session
Authenticated == result.was_connected /\ result.was_logged_in

Genuine(datagram) ==
    datagram.sender = DeviceIp /\ Len(datagram.data) \notin ignore_sizes

\* every wait of the latest call either times out or hears one genuine
\* datagram alone
Plain ==
    \A i \in DOMAIN result.heard :
        result.heard[i] = <<>>
        \/ (Len(result.heard[i]) = 1 /\ Genuine(result.heard[i][1]))

\* the waits of such a call that time out before a reply is heard
TimedOut ==
    LET answered == {i \in DOMAIN result.heard : result.heard[i] # <<>>}
    IN  IF answered = {} THEN MAX_RETRY
        ELSE (CHOOSE i \in answered : \A j \in answered : i <= j) - 1

\* the packet index a data_request frame carries
PacketIndex(frame) == get_short(frame, 40) % 32768
\* the command and the bounds a data_request frame carries
Asked(frame) == <<get_long(frame, 42), get_long(frame, 46), get_long(frame, 50)>>

\* C13: one request sends its first data_request frame and, each time the
\* wait for a reply times out, resends the same command and bounds with
\* the packet index advanced by one, MAX_RETRY frames at most; it returns
\* the reply as soon as one is accepted, and fails only after MAX_RETRY
\* timeouts.
C13_RequestRetry ==
    (result.op = "request_data" /\ Authenticated /\ Plain)
    => /\ Len(result.sent) = Min(TimedOut + 1, MAX_RETRY)
       /\ \A i \in DOMAIN result.sent :
            /\ Asked(result.sent[i].data) = COMMANDS.SpotACTotalPower
            /\ i > 1 => PacketIndex(result.sent[i].data)
                          = OneStep(PacketIndex(result.sent[i - 1].data))
       /\ TimedOut < MAX_RETRY
            => /\ result.ret = "data"
               /\ result.reply.data = result.heard[TimedOut + 1][1].data
       /\ TimedOut >= MAX_RETRY => result.ret # "data"

\* C14: when every wait of a read times out, so that its data request
\* exhausts the retry ceiling, the read raises a ConnectionError; it does
\* not return normally.
C14_ExhaustedIsConnectivity ==
    (result.op \in HighLevelReads /\ Authenticated /\ result.heard = <<>>)
    => result.ret = "raise" /\ IsA(result.exc.class, "ConnectionError")

\* the first wait of the latest call hears one genuine reply whose header
\* carries a non-zero error code
Rejected ==
    /\ result.heard # <<>>
    /\ Len(result.heard[1]) = 1
    /\ Genuine(result.heard[1][1])
    /\ CanParseHeader(result.heard[1][1].data)
    /\ parse_packet_header(result.heard[1][1].data).error_code # 0

\* C15: a reply to a data request whose header error code is non-zero is
\* raised to the caller as DeviceRejected carrying the code.
C15_DeviceRejected ==
    (result.op \in DataRequests \ {"get_archive_day_data", "read_all"}
       /\ Authenticated /\ Rejected)
    => /\ result.ret = "raise"
       /\ result.exc.class = "DeviceRejected"
       /\ FromHex(result.exc.digits)
            = parse_packet_header(result.heard[1][1].data).error_code

\* the waits of the battery queries of read_all, when none is answered
BatteryWaits ==
    (BeforeBattery + 1)..(BeforeBattery + MAX_RETRY * Len(Queries("get_battery_data")))

\* every wait of the latest call hears one genuine reply, but the waits of
\* the battery queries, which time out; the query for the day's archive is
\* answered
OnlyBatterySilent ==
    /\ Len(result.heard) = BeforeBattery + Cardinality(BatteryWaits) + 1
    /\ \A i \in DOMAIN result.heard :
         IF i \in BatteryWaits THEN result.heard[i] = <<>>
         ELSE Len(result.heard[i]) = 1 /\ Genuine(result.heard[i][1])

\* C16: read_all continues past a sub-query that gets no reply: the later
\* sub-queries are still sent, the fields of the answered sub-queries are
\* applied, and read_all returns the inverter.
C16_ReadAllContinues ==
    (result.op = "read_all" /\ Authenticated /\ OnlyBatterySilent)
    => /\ result.ret = "inverter"
       /\ Len(result.sent) = Len(result.heard)
       /\ inverter.total_pac = NumOf(1234)

\* the first wait of the call hears the device's answer alone, one
\* total-AC-power record, and no later wait hears anything
OneAnswer(heard) ==
    /\ Len(heard) = 1
    /\ Len(heard[1]) = 1
    /\ Genuine(heard[1][1])
    /\ parse_packet_header(heard[1][1].data).error_code = 0

\* C17: a SpotACTotalPower request answered with one total-AC-power record
\* sets total_pac to the decoded value and leaves every other field of the
\* inverter as it was.
C17_TotalPowerOnly ==
    [][(calls' = calls + 1 /\ result'.op = "get_spot_data"
          /\ connected /\ logged_in /\ OneAnswer(result'.heard))
       => /\ result'.ret = "inverter"
          /\ inverter' = [inverter EXCEPT !.total_pac = NumOf(1234)]]_vars

\* C18: no datagram of 600 or 608 bytes, and no datagram from a sender
\* other than the session's inverter, is returned to connect, login or a
\* data request as the reply; a reply is one of the datagrams delivered
\* during the call.
C18_FilterIsSafe ==
    ~result.reply.none
    => /\ Len(result.reply.data) \notin ignore_sizes
       /\ result.reply.sender = ip_address
       /\ \E i \in DOMAIN result.heard :
            \E j \in DOMAIN result.heard[i] :
                /\ result.heard[i][j].data = result.reply.data
                /\ result.heard[i][j].sender = result.reply.sender

C18_Witness ==
    /\ result.op = "login"
    /\ Len(result.heard[1]) = 3
    /\ Len(result.heard[1][1].data) \in ignore_sizes
    /\ result.heard[1][2].sender # ip_address
    /\ ~result.reply.none
    /\ result.reply.data = result.heard[1][3].data
    /\ result.ret = "True"

\* the one wait of the latest call hears datagrams to discard and then,
\* without a timeout between them, one genuine reply
DiscardsThenReply ==
    /\ Len(result.heard) = 1
    /\ Len(result.heard[1]) > 1
    /\ \A j \in 1..(Len(result.heard[1]) - 1) : ~Genuine(result.heard[1][j])
    /\ Genuine(result.heard[1][Len(result.heard[1])])

\* C19: discarded datagrams do not consume a retry attempt: whatever the
\* number of datagrams discarded before the genuine reply, the request
\* returns that reply having sent exactly one data_request frame.
C19_DiscardsKeepAttempt ==
    (result.op = "request_data" /\ Authenticated /\ DiscardsThenReply)
    => /\ result.ret = "data"
       /\ result.reply.data = result.heard[1][Len(result.heard[1])].data
       /\ Len(result.sent) = 1

\* the frames of the latest call that are logoff frames
IsLogoff(frame) == get_long(frame.data, 42) = N32(\hFFFD, \h010E)
ClosingOps == {"logout", "close"}

\* C20: logout and close never raise, in any state and any order; they
\* send one logoff frame when the session is logged in and no frame
\* otherwise, wait for no reply, and leave the session not logged in;
\* after close the session is not connected either and the socket is
\* released; a close that follows a close changes nothing.
C20_AfterClosing ==
    result.op \in ClosingOps
    => /\ result.ret # "raise"
       /\ result.exc = NoExc
       /\ Len(result.sent) = (IF result.was_logged_in THEN 1 ELSE 0)
       /\ \A i \in DOMAIN result.sent : IsLogoff(result.sent[i])
       /\ result.heard = <<>> /\ result.reply.none
       /\ ~logged_in
       /\ result.op = "close" => ~connected /\ ~sock

C20_SecondClose ==
    [][(calls' = calls + 1 /\ result.op = "close" /\ result'.op = "close")
       => UNCHANGED Session /\ result'.sent = <<>>]_vars

----------------------------------------------------------------------------
(* Claims about the source identity of frames, connect and the decoder *)

\* the source endpoint of a frame: application id and session serial
SourceIdentity(frame) == <<get_short(frame, 28), get_long(frame, 30)>>

\* C23: the session serial is chosen when the builder is created and never
\* changes: every init, login, logoff and data_request frame of one
\* builder, after any sequence of builds, carries application id 125 and
\* that same session serial as its source.
C23_SourceOfFrames ==
    lastCall.op \in AdvancingOps
    => /\ SourceIdentity(buffer) = <<APP_SUSYID, app_serial>>
       /\ app_serial = lastCall.app_serial
       /\ app_serial \in SessionSerials

C23_SerialKept == [][app_serial' = app_serial]_vars

C23_OneSerial == []C23_SourceOfFrames /\ C23_SerialKept

C23_Witness ==
    /\ lastCall.op = "data_request"
    /\ builds > 3
    /\ SourceIdentity(buffer) = <<125, NumOf(999999999)>>

\* a call that accepted a datagram shorter than the 44 bytes of the header
ShortReply ==
    /\ result.op \in {"connect", "login"}
    /\ ~result.reply.none
    /\ result.reply.data # <<>>
    /\ Len(result.reply.data) < 44

\* C24: a connect() or login() whose accepted reply is shorter than 44
\* bytes ends in an exception raised to its caller, having sent its frame
\* once
C24_ShortHeaderRaises ==
    ShortReply => result.ret = "raise" /\ Len(result.sent) = 1

IsInit(frame) == get_long(frame.data, 42) = InitCommand

\* the destination endpoint of a frame
Addressee(frame) == <<get_short(frame.data, 20), get_long(frame.data, 22)>>

\* a connect() that knew the address of the device and had a socket
ConnectTried == result.op = "connect" /\ ip_address # <<>> /\ sock

\* the identity the session holds
Identity == <<inverter.susy_id, inverter.serial>>

ControlByte(frame) == frame.data[20]
Bounds(frame) == <<get_long(frame.data, 46), get_long(frame.data, 50)>>

\* C27: an archive-day read of an Authenticated session sends a
\* data_request frame whose control byte is 0xE0 and whose bounds are
\* (start of day - 600, start of day + 86100).
C27_ArchiveControlByte ==
    (result.op = "get_archive_day_data" /\ Authenticated)
    => /\ result.sent # <<>>
       /\ ControlByte(result.sent[1]) = \hE0
       /\ \E start_ts \in Times :
             Bounds(result.sent[1]) = <<NumOf(ToInt(start_ts) - 600),
                                       NumOf(ToInt(start_ts) + 86100)>>

\* the command word build_login_packet writes
IsLogin(frame) == get_long(frame.data, 42) = N32(\hFFFD, \h040C)
IsDataRequest(frame) ==
    \E name \in DOMAIN COMMANDS : get_long(frame.data, 42) = COMMANDS[name][1]

\* C28: every login and data_request frame a call sends has the identity
\* of the session as its destination, and the identity changes only in a
\* connect() that returns True, to the source endpoint of the reply to it.
C28_AddressedToIdentity ==
    \A i \in DOMAIN result.sent :
        (IsLogin(result.sent[i]) \/ IsDataRequest(result.sent[i]))
        => /\ result.was_connected
           /\ Addressee(result.sent[i]) = Identity

C28_IdentityKept ==
    [][Identity' # Identity
       => /\ result'.op = "connect"
          /\ result'.ret = "True"
          /\ Identity' = <<get_short(result'.reply.data, 28),
                           get_long(result'.reply.data, 30)>>]_vars

C28_IdentityOfConnect == []C28_AddressedToIdentity /\ C28_IdentityKept

C28_Witness ==
    /\ result.op = "login"
    /\ result.sent # <<>>
    /\ IsLogin(result.sent[1])
    /\ Identity = <<ReplacedId.susy_id, ReplacedId.serial>>
    /\ Addressee(result.sent[1]) = Identity
    /\ calls > 2

----------------------------------------------------------------------------
(* Claims about the field mapper and unknown measurement codes *)

LriOf(names) == {LriDef[n] : n \in names}

\* the fields of the InverterData whose value differs between b and a
Changed(b, a) == {f \in DOMAIN a : a[f] # b[f]}

\* the DC slot cls of an InverterData, absent slots being as created
Slot(inv, cls) == IF cls \in DOMAIN inv.mpp THEN inv.mpp[cls] ELSE MPPTData

\* at most one attribute of the DC slot cls differs, and no other slot
OneSlotAttribute(b, a, cls) ==
    /\ \A c \in (DOMAIN a.mpp) \cup (DOMAIN b.mpp) :
          c # cls => c \in DOMAIN a.mpp /\ c \in DOMAIN b.mpp
                     /\ a.mpp[c] = b.mpp[c]
    /\ Cardinality({x \in DOMAIN MPPTData :
                      Slot(a, cls)[x] # Slot(b, cls)[x]}) <= 1

Targets(lri) ==
    LET L == LriDef
    IN  CASE lri = L.GridMsTotW -> {"total_pac", "sleep_time"}
          [] lri = L.MeteringTotWhOut -> {"e_total", "inverter_datetime"}
          [] lri = L.MeteringDyWhOut -> {"e_today", "inverter_datetime"}
          [] lri = L.NameplateLocation -> {"device_name", "wakeup_time"}
          [] lri = L.NameplateMainModel -> {"device_class_id", "device_class"}
          [] lri = L.BatChaStt -> {"bat_charge_status", "has_battery"}
          [] lri = L.GridMsWphsA -> {"pac1"}
          [] lri = L.GridMsWphsB -> {"pac2"}
          [] lri = L.GridMsWphsC -> {"pac3"}
          [] lri = L.GridMsPhVphsA -> {"uac1"}
          [] lri = L.GridMsPhVphsB -> {"uac2"}
          [] lri = L.GridMsPhVphsC -> {"uac3"}
          [] lri \in {L.GridMsAphsA_1, L.GridMsAphsA} -> {"iac1"}
          [] lri \in {L.GridMsAphsB_1, L.GridMsAphsB} -> {"iac2"}
          [] lri \in {L.GridMsAphsC_1, L.GridMsAphsC} -> {"iac3"}
          [] lri = L.GridMsHz -> {"grid_freq"}
          [] lri \in {L.DcMsWatt, L.DcMsVol, L.DcMsAmp} -> {"mpp"}
          [] lri = L.MeteringTotOpTms -> {"operation_time"}
          [] lri = L.MeteringTotFeedTms -> {"feed_in_time"}
          [] lri = L.NameplatePkgRev -> {"sw_version"}
          [] lri = L.NameplateModel -> {"device_type"}
          [] lri = L.OperationHealth -> {"device_status"}
          [] lri = L.OperationGriSwStt -> {"grid_relay_status"}
          [] lri = L.CoolsysTmpNom -> {"temperature"}
          [] lri = L.BatVol -> {"bat_voltage"}
          [] lri = L.BatAmp -> {"bat_current"}
          [] lri = L.BatTmpVal -> {"bat_temperature"}
          [] lri = L.MeteringGridMsTotWOut -> {"metering_grid_w_out"}
          [] lri = L.MeteringGridMsTotWIn -> {"metering_grid_w_in"}
          [] OTHER -> {}

\* codes whose record is applied only when it is of status type
StatusCodes ==
    LriOf({"NameplateModel", "NameplateMainModel", "OperationHealth",
           "OperationGriSwStt"})

\* the record of the latest mapping is one the mapper applies
Applies(rec) ==
    /\ Targets(rec.lri) # {}
    /\ rec.lri \in StatusCodes => rec.data_type = DT_STATUS
    /\ rec.lri = LriDef.NameplatePkgRev => rec.record_size >= 28

CodeOf(rec) == 256 * rec.tag[2] + 65536 * rec.tag[3]
InTable(rec) == CodeOf(rec) \in LriValues

RECURSIVE ApplyAll(_, _, _)
\* the records recs handed to the mapper one after another, each read from
\* its own bytes at the stride layout
ApplyAll(inv, layout, recs) ==
    IF recs = <<>> THEN inv
    ELSE ApplyAll(map_lri_value(inv, CodeOf(Head(recs)), Head(recs).tag[1],
                                Head(recs).tag[4],
                                RecordValue(EncodeRecord(layout, Head(recs)), 0,
                                            layout),
                                NumOf(Head(recs).ts),
                                EncodeRecord(layout, Head(recs)) \o Zeros(4), 0,
                                layout),
                  layout, Tail(recs))

\* the reply was decoded at the stride its records are laid out at
DecodedAtLayout == dres # "pending" /\ CandidateSize(din.data) = din.layout

\* C30: a record whose measurement code is not in the code table is
\* skipped without error: the InverterData after decoding a payload is the
\* one that results from applying, in order, its records with a code of
\* the table, wherever the records with unknown codes stand among them.
C30_UnknownSkipped ==
    DecodedAtLayout
    => /\ dres = "ok"
       /\ inverter = ApplyAll(DefaultInverter, din.layout,
                              SelectSeq(din.recs, InTable))

C30_Witness ==
    /\ DecodedAtLayout
    /\ Len(din.recs) = 2
    /\ ~InTable(din.recs[1])
    /\ din.recs[2].tag = Tag(LriDef.GridMsTotW, 1, 64)
    /\ din.recs[2].val = "plain"
    /\ inverter.total_pac = NumOf(1234)

----------------------------------------------------------------------------
(* Claims about the scoped session and discovery *)

\* C21: every way of leaving the with statement (the end of the block, an
\* exception in the block, an exception of __enter__, a failure of the
\* logoff send in close) leaves the socket closed.
C21_ReleasedOnExit == Left => ~sock

\* the responder an entry of the returned list stands for
ResponderOf(entry) == IF Len(entry) = 4 THEN entry ELSE entry[1]

\* discover() has returned its list
Discovered == result.op = "discover" /\ result.ret = "list"

\* C22, the list: the list discover() returns holds each responder once.
C22_UniqueResponders ==
    Discovered
    => \A i, j \in DOMAIN discovery.inverters :
          i # j => ResponderOf(discovery.inverters[i])
                     # ResponderOf(discovery.inverters[j])

\* C22, the query: no step of discover() changes the connected flag, the
\* logged-in flag, the identity of the device or the packet index.
C22_PureQuery ==
    [][(discovery.listening \/ discovery'.listening \/ result'.op = "discover")
       => /\ connected' = connected
          /\ logged_in' = logged_in
          /\ Identity' = Identity
          /\ packet_id' = packet_id]_vars

\* C22: discover() returns unique responders and is a pure query.
C22_Discover == []C22_UniqueResponders /\ C22_PureQuery

\* C26: discover() terminates: whenever its loop is running, it later is
\* not, also when datagrams keep arriving.
C26_DiscoverTerminates == discovery.listening ~> ~discovery.listening

----------------------------------------------------------------------------
(* Claims about strides, the historical decoder and absent data *)

\* the bounds a reply declares and the length of its record area
FirstBound(data) == ToInt(get_long(data, 46))
LastBound(data) == ToInt(get_long(data, 50))
PayloadLen(data) == Len(data) - 54 - 4

\* the InverterData the reply gives when decoded at one stride
DecodedAtStride(size) == parse_records(din.data, 54, size, DefaultInverter).inv

\* C31 (as stated): the first stride tried is max(12, payload_len div n)
\* with n = last_bound - first_bound + 1, for every data reply, and every
\* stride used is at least 12.
C31_CandidateStride ==
    dres # "pending"
    => /\ LastBound(din.data) - FirstBound(din.data) + 1 > 0
       /\ inverter = DecodedAtStride(
                         Max(12, PayloadLen(din.data)
                                   \div (LastBound(din.data)
                                           - FirstBound(din.data) + 1)))
       /\ CandidateSize(din.data)
            = Max(12, PayloadLen(din.data)
                        \div (LastBound(din.data) - FirstBound(din.data) + 1))

\* the number of records a reply declares, as the decoder counts them
DeclaredCount(data) ==
    IF LastBound(data) > FirstBound(data)
    THEN LastBound(data) - FirstBound(data) + 1 ELSE 1

\* C31 (amended): for a data reply whose record area is not empty the
\* first stride tried is max(12, payload_len div n), n being last_bound -
\* first_bound + 1 when last_bound > first_bound and 1 otherwise; for an
\* empty record area it is 28; the reply is decoded at that stride, and
\* every stride of the list is at least 12.
C31_StrideOfReply ==
    dres = "ok"
    => /\ CandidateSize(din.data)
            = IF PayloadLen(din.data) > 0
              THEN Max(12, PayloadLen(din.data) \div DeclaredCount(din.data))
              ELSE 28
       /\ inverter = DecodedAtStride(CandidateSize(din.data))
       /\ \A size \in {CandidateSize(din.data), 28, 16, 40, 12} : size >= 12

C31_Witness ==
    /\ dres = "ok"
    /\ Len(din.recs) = 1
    /\ din.layout = 40
    /\ LastBound(din.data) - FirstBound(din.data) + 1 = 4
    /\ CandidateSize(din.data) = 12
    /\ inverter # DefaultInverter

\* an archive record that carries a sample
IsSample(rec) == rec.ts # 0 /\ ~rec.nan

\* the float w is the quotient num / den; both numerators are multiples
\* of 3600, which is divided out before the products are taken
QuotientIs(w, num, den) ==
    /\ w[1] % 3600 = 0
    /\ num % 3600 = 0
    /\ (w[1] \div 3600) * den = (num \div 3600) * w[2]

\* C32: the samples of a decoded archive reply are its records with a
\* timestamp other than 0 and an energy other than the sentinel, in payload
\* order; the first has derived power 0, and a sample later in time than
\* the sample before it has the derived power (e1 - e0) * 3600 / (ts1 -
\* ts0), records that carry no sample standing between them or not.
C32_HistoricalSamples ==
    dres = "ok"
    => LET samples == SelectSeq(din.recs, IsSample)
           dd == inverter.day_data
       IN  /\ Len(dd) = Len(samples)
           /\ \A i \in DOMAIN dd :
                 /\ dd[i].datetime = <<NumOf(samples[i].ts)>>
                 /\ dd[i].total_wh = NumOf(samples[i].e)
                 /\ i = 1 => QuotientIs(dd[i].watt, 0, 1)
                 /\ (i > 1 /\ samples[i].ts > samples[i - 1].ts)
                    => QuotientIs(dd[i].watt,
                                  (samples[i].e - samples[i - 1].e) * 3600,
                                  samples[i].ts - samples[i - 1].ts)

C32_Witness ==
    /\ dres = "ok"
    /\ Len(din.recs) = 3
    /\ IsSample(din.recs[1])
    /\ din.recs[2].nan /\ din.recs[2].ts = 3600
    /\ din.recs[3] = [ts |-> 5400, e |-> 1500, nan |-> FALSE]
    /\ din.recs[1] = [ts |-> 1800, e |-> 1000, nan |-> FALSE]
    /\ Len(inverter.day_data) = 2
    /\ QuotientIs(inverter.day_data[2].watt, 500 * 3600, 3600)

\* C33: decoding a reply that _request_data returns raises no error, and
\* a reply without records, whole or cut short, leaves the InverterData
\* as it was.
C33_AbsentDataNoError ==
    dres # "pending" => dres = "ok" /\ inverter = DefaultInverter

\* C34: the reply that login() accepts carries the packet index of the
\* login frame that this call has sent.
C34_ReplyAnswersFrame ==
    (result.op = "login" /\ result.sent # <<>> /\ ~NotData(result.reply))
        => PacketIndex(result.reply.data) = PacketIndex(result.sent[1].data)

\* C35: in every state of a session, whatever calls were made and however
\* they ended, _logged_in implies _connected.
C35_LoggedInImpliesConnected == logged_in => connected

\* a connect() that fails while the session is logged in
C35_Witness ==
    /\ logged_in
    /\ connected
    /\ result.op = "connect"
    /\ result.ret = "raise"
    /\ discovery.inverters # <<>>

\* C36: after every connect() that returns True the session is not logged
\* in.
C36_ConnectClearsLogin ==
    (result.op = "connect" /\ result.ret = "True") => ~logged_in

\* a connect() that ends with "No response from inverter at ..."
Unanswered(r) ==
    /\ r.op = "connect"
    /\ r.ret = "raise"
    /\ r.exc.text = "No response from inverter at "

\* C37: a connect() that gets no reply leaves _connected, ip_address and
\* the identity in inverter as they were before the call.
C37_FailedConnectKeepsSession ==
    [][(calls' = calls + 1 /\ Unanswered(result'))
         => /\ connected' = connected
            /\ ip_address' = ip_address
            /\ Identity' = Identity]_vars

\* C38: the call that follows a close() sends no frame and does not open
\* the socket again.
C38_ClosedIsTerminal ==
    [][(result.op = "close" /\ result.ret # "raise" /\ calls' = calls + 1)
         => (result'.sent = <<>> /\ ~sock')]_vars

\* C39: after every archive reply decoded, has_day_data is true exactly
\* when day_data is not empty.
C39_FlagMatchesList ==
    dres = "ok" => (inverter.has_day_data <=> inverter.day_data # <<>>)

\* the number of whole records of a size between the start of the payload
\* and the trailer; none when the reply ends before the payload starts
WholeRecords(data, record_size) ==
    IF Len(data) - 4 >= 54 THEN (Len(data) - 4 - 54) \div record_size ELSE 0

\* C40: for every record size from 12 on and every reply of 54 bytes or
\* more, _parse_records raises nothing, its loop takes at most as many
\* turns as whole records fit between the start of the payload and the
\* trailer, and everything a turn reads for the record at pos lies in
\* pos .. pos + record_size - 1, before the trailer.
C40_ReadsInsideRecord ==
    dres # "pending" =>
        /\ dres = "ok"
        /\ Len(din.turns) <= WholeRecords(din.data, din.record_size)
        /\ \A i \in DOMAIN din.turns :
              /\ din.turns[i].pos = 54 + (i - 1) * din.record_size
              /\ \A part \in din.turns[i].reads :
                    /\ din.turns[i].pos <= part[1]
                    /\ part[1] + part[2] <= din.turns[i].pos + din.record_size
                    /\ part[1] + part[2] <= Len(din.data) - 4

\* two turns or more, one of them reading the version word, and a last
\* record that ends less than a record size before the trailer
C40_Witness ==
    /\ dres = "ok"
    /\ Len(din.turns) >= 2
    /\ \E i \in DOMAIN din.turns :
          <<din.turns[i].pos + 24, 4>> \in din.turns[i].reads
    /\ inverter.sw_version # DefaultInverter.sw_version
    /\ (Len(din.data) - 4 - 54) % din.record_size # 0

====
